---- MODULE Spec2Model ----
(***************************************************************************)
(* A model of tedit (src/tedit.c): the gap buffer, the undo list, the      *)
(* cursor / viewport bookkeeping and the key handlers of one editor.       *)
(*                                                                         *)
(* Bytes are integers (their character codes).  Pointers into the text     *)
(* buffer are offsets from ed->start, so start = 0.  The buffer is held as *)
(*    pre     the bytes in [start, gap)                                    *)
(*    gapsize rest - gap                                                   *)
(*    post    the bytes in [rest, end)                                     *)
(*    over    rest - end when rest lies beyond end (0 in a sound buffer)   *)
(* The bytes inside the gap are never part of the text; a read of a cell   *)
(* that holds no text byte (inside the gap, outside the allocation, or     *)
(* never initialised) yields the indeterminate byte e.junk, which every    *)
(* key dispatch draws afresh.  A write outside the allocation, or a read   *)
(* of a freed undo record, sets e.fault: from there on the C program has   *)
(* no defined behaviour and the model stops.                               *)
(***************************************************************************)
EXTENDS Integers, Sequences, FiniteSets, TLC

VARIABLES ed, clipboard, search, ref, hist, env, con

vars == <<ed, clipboard, search, ref, hist, env, con>>

(* ---------------------------------------------------------------------- *)
(* Program constants                                                       *)
(* ---------------------------------------------------------------------- *)
MINEXTEND == 32768
TABSIZE == 8
NULL == 0
NOANCHOR == -1
LF == 10
CR == 13
TAB == 9
NUL == 0

(* ---------------------------------------------------------------------- *)
(* Bounds of the model                                                     *)
(* ---------------------------------------------------------------------- *)
MaxRec == 3
MaxLen == 4
Lines == 2
Cols == 4
MaxGapOps == 2
MaxErase == 1
MaxBig == 1
MaxDocs == 3

Addr == 1..MaxRec
Garbage == {NUL, CR}

Min(a, b) == IF a < b THEN a ELSE b
Max(a, b) == IF a > b THEN a ELSE b
Take(s, n) == SubSeq(s, 1, Min(Max(n, 0), Len(s)))
Drop(s, n) == SubSeq(s, Min(Max(n, 0), Len(s)) + 1, Len(s))
Fill(n, b) == [i \in 1..Max(n, 0) |-> b]

(* F applied to the value of v: a local variable that is computed once. *)
Bind(v, F(_)) == CHOOSE r \in {F(x) : x \in {v}} : TRUE

(* ---------------------------------------------------------------------- *)
(* struct undo, struct editor                                              *)
(* ---------------------------------------------------------------------- *)
FreeNode == [live |-> FALSE, pos |-> 0, erased |-> 0, inserted |-> 0,
             undobuf |-> <<>>, redobuf |-> <<>>, next |-> NULL, prev |-> NULL,
             before |-> <<>>]

(* create_editor's memset(ed, 0, ...) followed by load_file / new_file:   *)
(* the text fills [start, gap), the gap is MINEXTEND bytes, anchor = -1.  *)
(* Not fields of the struct: junk is what a read of an indeterminate byte *)
(* yields during the current key, alloc the choices malloc makes          *)
(* during it, fault records undefined behaviour with no modelled outcome, *)
(* nofit a step that leaves the modelled part of the heap.  first tells   *)
(* what the first store of undo information of the current key did        *)
(* ("none", "new" or "coalesced"), news counts the records the current key *)
(* allocated, and a record's "before" is the text when the record was      *)
(* created.  full tells that malloc() has no memory for a text buffer      *)
(* during the current call.                                                *)
load_file(text) ==
    [pre |-> text, post |-> <<>>, gapsize |-> MINEXTEND, over |-> 0,
     toppos |-> 0, topline |-> 0, margin |-> 0,
     linepos |-> 0, line |-> 0, col |-> 0, lastcol |-> 0, anchor |-> NOANCHOR,
     undohead |-> NULL, undotail |-> NULL, undo |-> NULL,
     nodes |-> [a \in Addr |-> FreeNode],
     dirty |-> FALSE, newfile |-> FALSE,
     junk |-> NUL, alloc |-> <<>>, fault |-> FALSE, nofit |-> FALSE,
     first |-> "none", news |-> 0, full |-> FALSE]

new_file == [load_file(<<>>) EXCEPT !.newfile = TRUE]

(* ---------------------------------------------------------------------- *)
(* Gap buffer                                                              *)
(* ---------------------------------------------------------------------- *)
Gap(e) == Len(e.pre)
Rest(e) == Gap(e) + e.gapsize
End(e) == Rest(e) + Len(e.post) - e.over

text_length(e) == Gap(e) + (End(e) - Rest(e))

(* text_ptr() with the position of the gap itself left in front of it. *)
text_ptr_before_gap(e, pos) ==
    IF pos > Gap(e) THEN pos + (Rest(e) - Gap(e)) ELSE pos

text_ptr(e, pos) == IF pos >= Gap(e) THEN pos + (Rest(e) - Gap(e)) ELSE pos

(* The byte stored at buffer offset p. *)
Mem(e, p) ==
    IF p >= 0 /\ p < Gap(e) THEN e.pre[p + 1]
    ELSE IF p >= Rest(e) /\ p < End(e) THEN e.post[p - Rest(e) + 1]
    ELSE e.junk

get(e, pos) ==
    LET p == text_ptr(e, pos)
    IN  IF p >= End(e) THEN -1 ELSE Mem(e, p)

(* k consecutive cells of the buffer from offset p on. *)
ReadRun(e, p, k) ==
    IF k <= 0 THEN <<>>
    ELSE IF p >= 0 /\ p + k <= Gap(e) THEN SubSeq(e.pre, p + 1, p + k)
    ELSE IF p >= Rest(e) /\ p + k <= End(e)
    THEN SubSeq(e.post, p - Rest(e) + 1, p - Rest(e) + k)
    ELSE [i \in 1..k |-> Mem(e, p + i - 1)]

(* copy(): p walks from text_ptr(pos), jumps from gap to rest, and stops   *)
(* when it meets ed->end or after len bytes.  CopyStop is the number of    *)
(* steps after which p = end (-1 when p never meets end).                  *)
CopyStop(e, p0) ==
    IF p0 < Gap(e)
    THEN IF End(e) >= p0 /\ End(e) < Gap(e) THEN End(e) - p0
         ELSE IF End(e) >= Rest(e) THEN (Gap(e) - p0) + (End(e) - Rest(e))
         ELSE -1
    ELSE IF End(e) >= p0 THEN End(e) - p0 ELSE -1

copy(e, pos, len) ==
    Bind(text_ptr(e, pos), LAMBDA p0 :
    Bind(CopyStop(e, p0), LAMBDA stop :
    Bind(IF stop >= 0 /\ stop < len THEN stop ELSE Max(len, 0), LAMBDA n :
    Bind(IF p0 < Gap(e) THEN Min(n, Gap(e) - p0) ELSE 0, LAMBDA a :
        IF p0 < Gap(e)
        THEN ReadRun(e, p0, a) \o ReadRun(e, Rest(e), n - a)
        ELSE ReadRun(e, p0, n)))))

(* A malloc'ed buffer of len bytes that copy() was never run on. *)
CopyInto_uncopied(e, pos, len) == Fill(len, e.junk)

(* A malloc'ed buffer of len bytes into which copy() stored what it got.   *)
CopyInto(e, pos, len) ==
    Bind(copy(e, pos, len), LAMBDA got :
        got \o Fill(len - Len(got), e.junk))

move_gap(e, pos, minsize0) ==
    Bind(Rest(e) - Gap(e), LAMBDA gapsize :
    Bind(text_ptr(e, pos), LAMBDA p :
    Bind(IF minsize0 < 0 THEN 0 ELSE minsize0, LAMBDA minsize :
        IF e.fault THEN e
        ELSE IF minsize <= gapsize
        THEN IF p = Rest(e) THEN e
             ELSE IF p < Gap(e)
             THEN (* memmove(p + gapsize, p, gap - p) *)
                  IF pos < 0 \/ e.over > 0 THEN [e EXCEPT !.fault = TRUE]
                  ELSE [e EXCEPT !.pre = Take(e.pre, pos),
                                 !.post = Drop(e.pre, pos) \o e.post]
             ELSE (* memmove(gap, rest, p - rest) *)
                  LET n == p - Rest(e)
                  IN  IF Gap(e) + n > End(e)
                      THEN [e EXCEPT !.fault = TRUE]
                      ELSE [e EXCEPT
                              !.pre = e.pre \o Take(e.post, n)
                                            \o Fill(n - Len(e.post), e.junk),
                              !.post = Drop(e.post, n),
                              !.over = IF n > Len(e.post)
                                       THEN e.over + (n - Len(e.post))
                                       ELSE e.over]
        ELSE (* a new allocation with the gap at pos; the result of      *)
             (* malloc() is used unchecked, so NULL is written through    *)
             LET newgap == IF gapsize + MINEXTEND > minsize
                           THEN gapsize + MINEXTEND ELSE minsize
             IN  IF pos < 0 \/ pos > text_length(e) \/ e.over > 0 \/ e.full
                 THEN [e EXCEPT !.fault = TRUE]
                 ELSE IF p < Gap(e)
                 THEN [e EXCEPT !.pre = Take(e.pre, pos),
                                !.post = Drop(e.pre, pos) \o e.post,
                                !.gapsize = newgap]
                 ELSE [e EXCEPT !.pre = e.pre \o Take(e.post, p - Rest(e)),
                                !.post = Drop(e.post, p - Rest(e)),
                                !.gapsize = newgap])))

close_gap(e) ==
    LET len == text_length(e)
    IN  move_gap(e, len, 1)

(* ---------------------------------------------------------------------- *)
(* Undo list                                                               *)
(* ---------------------------------------------------------------------- *)
ToUChar(c) == c % 256

Live(e, a) == a \in Addr /\ e.nodes[a].live

(* clear_undo(): the records from a along next are freed; following a     *)
(* pointer to a freed record is undefined.                                 *)
RECURSIVE clear_undo_walk(_, _, _)
clear_undo_walk(e, a, fuel) ==
    IF a = NULL THEN e
    ELSE IF fuel = 0 \/ ~Live(e, a) THEN [e EXCEPT !.fault = TRUE]
    ELSE clear_undo_walk([e EXCEPT !.nodes[a] = FreeNode],
                         e.nodes[a].next, fuel - 1)

clear_undo(e) ==
    Bind(clear_undo_walk(e, e.undohead, MaxRec), LAMBDA w :
        IF w.fault THEN w
        ELSE [w EXCEPT !.undohead = NULL, !.undotail = NULL, !.undo = NULL])

(* reset_undo() with its loop left out: nothing is freed. *)
reset_undo_loop_keep(e) == e

RECURSIVE reset_undo_loop(_)
reset_undo_loop(e) ==
    IF e.fault \/ e.undotail = e.undo THEN e
    ELSE LET u == e.undotail
         IN  IF u = NULL
             THEN [e EXCEPT !.undohead = NULL, !.undotail = NULL]
             ELSE IF ~Live(e, u) THEN [e EXCEPT !.fault = TRUE]
             ELSE LET pv == e.nodes[u].prev
                  IN  IF pv # NULL /\ ~Live(e, pv)
                      THEN [e EXCEPT !.fault = TRUE]
                      ELSE reset_undo_loop(
                             [e EXCEPT
                                !.undotail = pv,
                                !.nodes = [a \in Addr |->
                                    IF a = u THEN FreeNode
                                    ELSE IF a = pv
                                    THEN [e.nodes[a] EXCEPT !.next = NULL]
                                    ELSE e.nodes[a]]])

reset_undo(e) ==
    Bind(reset_undo_loop(e), LAMBDA r : [r EXCEPT !.undo = r.undotail])

(* The text as copy() returns it. *)
Content(e) == copy(e, 0, text_length(e))

(* The block malloc(sizeof(struct undo)) returns: some free block.  Only   *)
(* undohead can still point to a freed record, so the free blocks other    *)
(* than that one are interchangeable and the lowest stands for them.       *)
(* reuse tells whether malloc hands out the block undohead points to;      *)
(* NULL stands for a choice the heap as modelled cannot serve.             *)
malloc(e, reuse) ==
    LET free  == {a \in Addr : ~e.nodes[a].live}
        other == free \ {e.undohead}
    IN  IF reuse
        THEN IF e.undohead \in free THEN e.undohead ELSE NULL
        ELSE IF other = {} THEN NULL
        ELSE CHOOSE a \in other : \A b \in other : a <= b

(* The three tests of replace() for adding to the tail record u. *)
coalesce_insert_anywhere(u, pos, len, bufsize) ==
    len = 0 /\ bufsize = 1 /\ u.erased = 0

coalesce_insert(u, pos, len, bufsize) ==
    len = 0 /\ bufsize = 1 /\ u.erased = 0 /\ pos = u.pos + u.inserted

coalesce_erase_end(u, pos, len, bufsize) ==
    len = 1 /\ bufsize = 0 /\ u.inserted = 0 /\ pos = u.pos

coalesce_erase_begin(u, pos, len, bufsize) ==
    len = 1 /\ bufsize = 0 /\ u.inserted = 0 /\ pos = u.pos - 1

(* The erased byte put behind the bytes of undobuf. *)
undobuf_append(c, undobuf) == undobuf \o <<c>>

(* memmove(undobuf + 1, undobuf, erased); undobuf[0] = c. *)
undobuf_prepend(c, undobuf) == <<c>> \o undobuf

(* The "Store undo information" half of replace(). *)
store_undo(e0, pos, len, buf) ==
    Bind(reset_undo(e0), LAMBDA e :
    LET u       == e.undotail
        bufsize == Len(buf)
    IN  IF e.fault THEN e
        ELSE IF u # NULL /\ ~Live(e, u) THEN [e EXCEPT !.fault = TRUE]
        ELSE IF u # NULL /\ coalesce_insert(e.nodes[u], pos, len, bufsize)
        THEN [e EXCEPT !.nodes[u].redobuf = Append(@, buf[1]),
                       !.nodes[u].inserted = @ + 1,
                       !.first = IF @ = "none" THEN "coalesced" ELSE @]
        ELSE IF u # NULL /\ coalesce_erase_end(e.nodes[u], pos, len, bufsize)
        THEN [e EXCEPT !.nodes[u].undobuf = Append(@, ToUChar(get(e, pos))),
                       !.nodes[u].erased = @ + 1,
                       !.first = IF @ = "none" THEN "coalesced" ELSE @]
        ELSE IF u # NULL /\ coalesce_erase_begin(e.nodes[u], pos, len, bufsize)
        THEN [e EXCEPT !.nodes[u].pos = @ - 1,
                       !.nodes[u].undobuf =
                           undobuf_prepend(ToUChar(get(e, pos)), @),
                       !.nodes[u].erased = @ + 1,
                       !.first = IF @ = "none" THEN "coalesced" ELSE @]
        ELSE (* undo = malloc(sizeof(struct undo)) *)
             IF e.alloc = <<>> \/ malloc(e, Head(e.alloc)) = NULL
             THEN [e EXCEPT !.nofit = TRUE]
             ELSE Bind(malloc(e, Head(e.alloc)), LAMBDA a :
                  LET node == [live |-> TRUE, pos |-> pos, erased |-> len,
                               inserted |-> bufsize,
                               undobuf |-> IF len > 0 THEN CopyInto(e, pos, len)
                                           ELSE <<>>,
                               redobuf |-> buf,
                               next |-> NULL, prev |-> e.undotail,
                               before |-> Content(e)]
                  IN  [e EXCEPT
                         !.nodes = [b \in Addr |->
                             IF b = a THEN node
                             ELSE IF b = e.undotail
                             THEN [e.nodes[b] EXCEPT !.next = a]
                             ELSE e.nodes[b]],
                         !.undotail = a, !.undo = a,
                         !.undohead = IF e.undohead = NULL THEN a ELSE @,
                         !.alloc = Tail(@),
                         !.first = IF @ = "none" THEN "new" ELSE @,
                         !.news = @ + 1]))

(* The half of replace() that edits the buffer. *)
splice(e, pos, len, buf) ==
    LET bufsize == Len(buf)
    IN  IF e.fault THEN e
        ELSE IF bufsize = 0 /\ pos <= Gap(e) /\ pos + len >= Gap(e)
        THEN (* a deletion at the edges of the gap *)
             IF pos < 0 THEN [e EXCEPT !.fault = TRUE]
             ELSE LET k == len - (Gap(e) - pos)
                  IN  [e EXCEPT !.pre = Take(e.pre, pos),
                                !.post = Drop(e.post, k),
                                !.over = @ + Max(0, k - Len(e.post)),
                                !.gapsize = @ + len]
        ELSE Bind(move_gap(e, pos + len, bufsize - len), LAMBDA m :
                 IF m.fault THEN m
                 ELSE IF pos < 0 \/ pos + bufsize > End(m)
                 THEN [m EXCEPT !.fault = TRUE]
                 ELSE [m EXCEPT !.pre = Take(m.pre, pos) \o buf,
                                !.gapsize = @ + len - bufsize])

replace(e, pos, len, buf, doundo) ==
    Bind(IF doundo THEN store_undo(e, pos, len, buf) ELSE e, LAMBDA u :
    Bind(splice(u, pos, len, buf), LAMBDA s :
        IF s.fault THEN s ELSE [s EXCEPT !.dirty = TRUE]))

insert(e, pos, buf) == replace(e, pos, 0, buf, TRUE)

erase_section(e, pos, len) == replace(e, pos, len, <<>>, TRUE)

(* ---------------------------------------------------------------------- *)
(* Navigation functions                                                    *)
(* ---------------------------------------------------------------------- *)
RECURSIVE line_end(_, _)
line_end(e, pos) ==
    Bind(get(e, pos), LAMBDA ch :
        IF ch < 0 \/ ch = LF \/ ch = CR THEN pos ELSE line_end(e, pos + 1))

line_length(e, linepos) == line_end(e, linepos) - linepos

(* line_start() never ends when it is entered with pos < 0 and meets no    *)
(* '\n' below the buffer: the result is then RUNAWAY.                      *)
RUNAWAY == -2

RECURSIVE line_start(_, _)
line_start(e, pos) ==
    IF pos = 0 THEN pos
    ELSE IF pos < 0 THEN RUNAWAY
    ELSE IF get(e, pos - 1) = LF THEN pos
    ELSE line_start(e, pos - 1)

(* next_line() returning the position of the '\n' it found. *)
RECURSIVE next_line_at_newline(_, _)
next_line_at_newline(e, pos) ==
    Bind(get(e, pos), LAMBDA ch :
        IF ch < 0 THEN -1
        ELSE IF ch = LF THEN pos
        ELSE next_line_at_newline(e, pos + 1))

RECURSIVE next_line(_, _)
next_line(e, pos) ==
    Bind(get(e, pos), LAMBDA ch :
        IF ch < 0 THEN -1
        ELSE IF ch = LF THEN pos + 1
        ELSE next_line(e, pos + 1))

(* The second loop of prev_line(). *)
RECURSIVE prev_line_scan(_, _)
prev_line_scan(e, pos) ==
    IF pos > 0
    THEN IF get(e, pos - 1) = LF THEN pos ELSE prev_line_scan(e, pos - 1)
    ELSE 0

(* The first loop of prev_line(): the position of the '\n' that ends the   *)
(* previous line, or 0.                                                    *)
RECURSIVE prev_line_skip(_, _)
prev_line_skip(e, pos) ==
    IF pos > 0
    THEN IF get(e, pos - 1) = LF THEN pos - 1 ELSE prev_line_skip(e, pos - 1)
    ELSE pos

prev_line(e, pos) ==
    IF pos = 0 THEN -1
    ELSE prev_line_scan(e, prev_line_skip(e, pos))

RECURSIVE column_walk(_, _)
column_walk(bytes, c) ==
    IF bytes = <<>> THEN c
    ELSE column_walk(Tail(bytes),
                     IF Head(bytes) = TAB THEN c + (TABSIZE - (c % TABSIZE))
                     ELSE c + 1)

(* column() walks the buffer exactly as copy() does. *)
column(e, linepos, col) == column_walk(copy(e, linepos, col), 0)

(* The first loop of moveto(); r.scroll is the local of that name.  fuel   *)
(* bounds the iterations: a run that exhausts it does not terminate.       *)
RECURSIVE moveto_walk(_, _, _, _)
moveto_walk(e, pos, scroll, fuel) ==
    LET cur == e.linepos + e.col
    IN  IF fuel = 0 THEN [e |-> [e EXCEPT !.fault = TRUE], scroll |-> scroll]
        ELSE IF pos < cur
        THEN IF pos >= e.linepos
             THEN moveto_walk([e EXCEPT !.col = pos - e.linepos],
                              pos, scroll, fuel - 1)
             ELSE Bind(prev_line(e, e.linepos), LAMBDA lp :
                  LET up == e.topline > e.line - 1
                  IN  moveto_walk(
                        [e EXCEPT !.col = 0, !.linepos = lp, !.line = @ - 1,
                                  !.toppos = IF up THEN lp ELSE @,
                                  !.topline = IF up THEN @ - 1 ELSE @],
                        pos, scroll \/ up, fuel - 1))
        ELSE IF pos > cur
        THEN Bind(next_line(e, e.linepos), LAMBDA nxt :
                 IF nxt = -1
                 THEN [e |-> [e EXCEPT !.col = text_length(e) - e.linepos],
                       scroll |-> scroll]
                 ELSE IF pos < nxt
                 THEN moveto_walk([e EXCEPT !.col = pos - e.linepos],
                                  pos, scroll, fuel - 1)
                 ELSE LET dn == e.line + 1 >= e.topline + Lines
                      IN  moveto_walk(
                            [e EXCEPT !.col = 0, !.linepos = nxt, !.line = @ + 1,
                                      !.toppos = IF dn THEN next_line(e, @) ELSE @,
                                      !.topline = IF dn THEN @ + 1 ELSE @],
                            pos, scroll \/ dn, fuel - 1))
        ELSE [e |-> e, scroll |-> scroll]

(* The second loop of moveto(): bring topline to tl. *)
RECURSIVE moveto_center(_, _)
moveto_center(e, tl) ==
    IF e.topline > tl
    THEN moveto_center([e EXCEPT !.toppos = prev_line(e, @), !.topline = @ - 1], tl)
    ELSE IF e.topline < tl
    THEN moveto_center([e EXCEPT !.toppos = next_line(e, @), !.topline = @ + 1], tl)
    ELSE e

MoveFuel(e, pos) == 4 * (Len(e.pre) + Len(e.post) + 4)
                    + (IF pos < 0 THEN 0 - pos ELSE pos)

moveto(e, pos, center) ==
    IF e.fault THEN e
    ELSE Bind(moveto_walk(e, pos, FALSE, MoveFuel(e, pos)), LAMBDA r :
             IF r.e.fault THEN r.e
             ELSE IF r.scroll /\ center
             THEN moveto_center(r.e, Max(r.e.line - Lines \div 2, 0))
             ELSE r.e)

(* ---------------------------------------------------------------------- *)
(* Text selection                                                          *)
(* ---------------------------------------------------------------------- *)
get_selection(e) ==
    LET pos == e.linepos + e.col
    IN  IF e.anchor = NOANCHOR \/ pos = e.anchor
        THEN [ok |-> FALSE, start |-> -1, end |-> -1]
        ELSE IF pos < e.anchor
        THEN [ok |-> TRUE, start |-> pos, end |-> e.anchor]
        ELSE [ok |-> TRUE, start |-> e.anchor, end |-> pos]

update_selection(e, select) ==
    IF select
    THEN IF e.anchor = NOANCHOR THEN [e EXCEPT !.anchor = e.linepos + e.col]
         ELSE e
    ELSE [e EXCEPT !.anchor = NOANCHOR]

erase_selection(e) ==
    Bind(get_selection(e), LAMBDA sel :
        IF ~sel.ok THEN e
        ELSE Bind(moveto(e, sel.start, FALSE), LAMBDA m :
             Bind(erase_section(m, sel.start, sel.end - sel.start), LAMBDA x :
                 IF x.fault THEN x ELSE [x EXCEPT !.anchor = NOANCHOR])))

select_all(e) ==
    moveto([e EXCEPT !.anchor = 0], text_length(e), FALSE)

(* ---------------------------------------------------------------------- *)
(* Cursor movement                                                         *)
(* ---------------------------------------------------------------------- *)
RECURSIVE margin_down(_, _)
margin_down(col, margin) ==
    IF col < margin THEN margin_down(col, Max(margin - 4, 0)) ELSE margin

RECURSIVE margin_up(_, _)
margin_up(col, margin) ==
    IF col - margin >= Cols THEN margin_up(col, margin + 4) ELSE margin

adjust(e) ==
    IF e.fault THEN e
    ELSE Bind(line_length(e, e.linepos), LAMBDA ll :
         Bind(IF e.lastcol > ll THEN ll ELSE e.lastcol, LAMBDA c :
         Bind(column(e, e.linepos, c), LAMBDA vc :
             [e EXCEPT !.col = c,
                       !.margin = margin_up(vc, margin_down(vc, @))])))

(* "if (ed->line < ed->topline) { toppos = linepos; topline = line; }" *)
scroll_up(e) ==
    IF e.line < e.topline
    THEN [e EXCEPT !.toppos = e.linepos, !.topline = e.line]
    ELSE e

(* "if (ed->line >= ed->topline + lines) { toppos = next_line(toppos);     *)
(*  topline++; }"                                                          *)
scroll_down(e) ==
    IF e.line >= e.topline + Lines
    THEN [e EXCEPT !.toppos = next_line(e, @), !.topline = @ + 1]
    ELSE e

up(e, select) ==
    Bind(prev_line(e, e.linepos), LAMBDA newpos :
        IF newpos < 0 THEN e
        ELSE adjust(scroll_up([update_selection(e, select) EXCEPT
                                 !.linepos = newpos, !.line = @ - 1])))

down(e, select) ==
    Bind(next_line(e, e.linepos), LAMBDA newpos :
        IF newpos < 0 THEN e
        ELSE adjust(scroll_down([update_selection(e, select) EXCEPT
                                   !.linepos = newpos, !.line = @ + 1])))

left(e, select) ==
    Bind(update_selection(e, select), LAMBDA s :
        IF s.col > 0
        THEN adjust([s EXCEPT !.col = @ - 1, !.lastcol = s.col - 1])
        ELSE Bind(prev_line(s, s.linepos), LAMBDA newpos :
                 IF newpos < 0 THEN s
                 ELSE Bind(line_length(s, newpos), LAMBDA ll :
                          adjust(scroll_up([s EXCEPT !.col = ll,
                                                     !.lastcol = ll,
                                                     !.linepos = newpos,
                                                     !.line = @ - 1])))))

right(e, select) ==
    Bind(update_selection(e, select), LAMBDA s :
        IF s.col < line_length(s, s.linepos)
        THEN adjust([s EXCEPT !.col = @ + 1, !.lastcol = s.col + 1])
        ELSE Bind(next_line(s, s.linepos), LAMBDA newpos :
                 IF newpos < 0 THEN s
                 ELSE adjust(scroll_down([s EXCEPT !.col = 0, !.lastcol = 0,
                                                   !.linepos = newpos,
                                                   !.line = @ + 1]))))

wordchar(ch) ==
    \/ (ch >= 65 /\ ch <= 90)
    \/ (ch >= 97 /\ ch <= 122)
    \/ (ch >= 48 /\ ch <= 57)

(* The loop of wordleft(): r.pos and r.e (linepos, line) when it ends. *)
RECURSIVE wordleft_walk(_, _, _)
wordleft_walk(e, pos, phase) ==
    IF pos > 0
    THEN Bind(get(e, pos - 1), LAMBDA ch :
         LET stop == phase = 1 /\ ~wordchar(ch)
             ph == IF phase = 0 /\ wordchar(ch) THEN 1 ELSE phase
         IN  IF stop THEN [e |-> e, pos |-> pos]
             ELSE wordleft_walk(
                    IF pos - 1 < e.linepos
                    THEN [e EXCEPT !.linepos = prev_line(e, @), !.line = @ - 1]
                    ELSE e,
                    pos - 1, ph))
    ELSE [e |-> e, pos |-> pos]

wordleft(e, select) ==
    Bind(update_selection(e, select), LAMBDA s :
    Bind(wordleft_walk(s, s.linepos + s.col, 0), LAMBDA r :
        LET c == r.pos - r.e.linepos
        IN  adjust(scroll_up([r.e EXCEPT !.col = c, !.lastcol = c]))))

(* The loop of wordright(): nxt is the local "next". *)
RECURSIVE wordright_walk(_, _, _, _, _)
wordright_walk(e, pos, end_, nxt, phase) ==
    IF pos < end_
    THEN Bind(get(e, pos), LAMBDA ch :
         LET stop == phase = 1 /\ ~wordchar(ch)
             ph == IF phase = 0 /\ wordchar(ch) THEN 1 ELSE phase
             cross == pos + 1 = nxt
         IN  IF stop THEN [e |-> e, pos |-> pos]
             ELSE wordright_walk(
                    IF cross THEN [e EXCEPT !.linepos = nxt, !.line = @ + 1]
                    ELSE e,
                    pos + 1, end_,
                    IF cross THEN next_line(e, nxt) ELSE nxt,
                    ph))
    ELSE [e |-> e, pos |-> pos]

wordright(e, select) ==
    Bind(update_selection(e, select), LAMBDA s :
    Bind(wordright_walk(s, s.linepos + s.col, text_length(s),
                        next_line(s, s.linepos), 0), LAMBDA r :
        LET c == r.pos - r.e.linepos
        IN  adjust(scroll_down([r.e EXCEPT !.col = c, !.lastcol = c]))))

home(e, select) ==
    adjust([update_selection(e, select) EXCEPT !.col = 0, !.lastcol = 0])

end(e, select) ==
    Bind(update_selection(e, select), LAMBDA s :
    Bind(line_length(s, s.linepos), LAMBDA ll :
        adjust([s EXCEPT !.col = ll, !.lastcol = ll])))

top(e, select) ==
    [update_selection(e, select) EXCEPT
        !.toppos = 0, !.topline = 0, !.margin = 0,
        !.linepos = 0, !.line = 0, !.col = 0, !.lastcol = 0]

RECURSIVE bottom_walk(_)
bottom_walk(e) ==
    Bind(next_line(e, e.linepos), LAMBDA newpos :
        IF newpos < 0 THEN e
        ELSE bottom_walk(scroll_down([e EXCEPT !.linepos = newpos,
                                               !.line = @ + 1])))

bottom(e, select) ==
    Bind(bottom_walk(update_selection(e, select)), LAMBDA b :
    Bind(line_length(b, b.linepos), LAMBDA ll :
        adjust([b EXCEPT !.col = ll, !.lastcol = ll])))

(* The for loop of pageup(); done is TRUE when it left through "return". *)
RECURSIVE pageup_walk(_, _)
pageup_walk(e, i) ==
    IF i >= Lines THEN [e |-> e, done |-> FALSE]
    ELSE Bind(prev_line(e, e.linepos), LAMBDA newpos :
             IF newpos < 0 THEN [e |-> e, done |-> TRUE]
             ELSE Bind([e EXCEPT !.linepos = newpos, !.line = @ - 1], LAMBDA m :
                      pageup_walk(
                        IF m.topline > 0
                        THEN [m EXCEPT !.toppos = prev_line(m, @),
                                       !.topline = @ - 1]
                        ELSE m,
                        i + 1)))

pageup(e, select) ==
    Bind(update_selection(e, select), LAMBDA s :
        IF s.line < Lines
        THEN adjust([s EXCEPT !.linepos = 0, !.toppos = 0,
                              !.line = 0, !.topline = 0])
        ELSE Bind(pageup_walk(s, 0), LAMBDA r :
                 IF r.done THEN r.e ELSE adjust(r.e)))

RECURSIVE pagedown_walk(_, _)
pagedown_walk(e, i) ==
    IF i >= Lines THEN e
    ELSE Bind(next_line(e, e.linepos), LAMBDA newpos :
             IF newpos < 0 THEN e
             ELSE pagedown_walk([e EXCEPT !.linepos = newpos, !.line = @ + 1,
                                          !.toppos = next_line(e, @),
                                          !.topline = @ + 1], i + 1))

pagedown(e, select) ==
    adjust(pagedown_walk(update_selection(e, select), 0))

(* ---------------------------------------------------------------------- *)
(* Text editing                                                            *)
(* ---------------------------------------------------------------------- *)
insert_char(e, ch) ==
    Bind(erase_selection(e), LAMBDA x :
    Bind(insert(x, x.linepos + x.col, <<ch>>), LAMBDA i :
        adjust([i EXCEPT !.col = @ + 1, !.lastcol = i.col + 1])))

newline(e) ==
    Bind(erase_selection(e), LAMBDA x :
    Bind(insert(x, x.linepos + x.col, <<LF>>), LAMBDA i :
        IF i.fault THEN i
        ELSE adjust(scroll_down(
                 [i EXCEPT !.col = 0, !.lastcol = 0, !.line = @ + 1,
                           !.linepos = next_line(i, @)]))))

(* backspace() without the test for a preceding '\r'. *)
backspace_lf_only(e) ==
    IF get_selection(e).ok THEN erase_selection(e)
    ELSE IF e.linepos + e.col = 0 THEN e
    ELSE IF e.col = 0
    THEN Bind(erase_section(e, e.linepos - 1, 1), LAMBDA a :
         Bind(e.linepos - 1, LAMBDA pos :
         Bind(line_start(a, pos), LAMBDA ls :
             IF a.fault THEN a
             ELSE IF ls = RUNAWAY THEN [a EXCEPT !.fault = TRUE]
             ELSE adjust(scroll_up(
                      [a EXCEPT !.line = @ - 1, !.linepos = ls,
                                !.col = pos - ls, !.lastcol = pos - ls])))))
    ELSE Bind(erase_section([e EXCEPT !.col = @ - 1],
                            e.linepos + e.col - 1, 1), LAMBDA x :
             adjust([x EXCEPT !.lastcol = x.col]))

backspace(e) ==
    IF get_selection(e).ok THEN erase_selection(e)
    ELSE IF e.linepos + e.col = 0 THEN e
    ELSE IF e.col = 0
    THEN Bind(erase_section(e, e.linepos - 1, 1), LAMBDA a :
         IF a.fault THEN a
         ELSE
         Bind(get(a, e.linepos - 2) = CR, LAMBDA cr :
         Bind(IF cr THEN erase_section(a, e.linepos - 2, 1) ELSE a, LAMBDA b :
         Bind(IF cr THEN e.linepos - 2 ELSE e.linepos - 1, LAMBDA pos :
         Bind(line_start(b, pos), LAMBDA ls :
             IF b.fault THEN b
             ELSE IF ls = RUNAWAY THEN [b EXCEPT !.fault = TRUE]
             ELSE adjust(scroll_up(
                      [b EXCEPT !.line = @ - 1, !.linepos = ls,
                                !.col = pos - ls, !.lastcol = pos - ls])))))))
    ELSE Bind(erase_section([e EXCEPT !.col = @ - 1],
                            e.linepos + e.col - 1, 1), LAMBDA x :
             adjust([x EXCEPT !.lastcol = x.col]))

(* del() without the test for the end of the text. *)
del_unchecked(e) ==
    IF get_selection(e).ok THEN erase_selection(e)
    ELSE Bind(e.linepos + e.col, LAMBDA pos :
         Bind(get(e, pos), LAMBDA ch :
             Bind(erase_section(e, pos, 1), LAMBDA a :
                 IF a.fault THEN a
                 ELSE IF ch = CR /\ get(a, pos) = LF
                 THEN erase_section(a, pos, 1)
                 ELSE a)))

del(e) ==
    IF get_selection(e).ok THEN erase_selection(e)
    ELSE Bind(e.linepos + e.col, LAMBDA pos :
         Bind(get(e, pos), LAMBDA ch :
             IF ch < 0 THEN e
             ELSE Bind(erase_section(e, pos, 1), LAMBDA a :
                      IF a.fault THEN a
                      ELSE IF ch = CR /\ get(a, pos) = LF
                      THEN erase_section(a, pos, 1)
                      ELSE a)))

undo(e) ==
    IF e.undo = NULL THEN e
    ELSE IF ~Live(e, e.undo) THEN [e EXCEPT !.fault = TRUE]
    ELSE Bind(e.nodes[e.undo], LAMBDA u :
         Bind(moveto(e, u.pos, FALSE), LAMBDA m :
         Bind(replace(m, u.pos, u.inserted, u.undobuf, FALSE), LAMBDA r :
             IF r.fault THEN r
             ELSE [r EXCEPT !.undo = u.prev,
                            !.dirty = IF u.prev = NULL THEN FALSE ELSE @])))

redo(e) ==
    IF e.undo # NULL /\ ~Live(e, e.undo) THEN [e EXCEPT !.fault = TRUE]
    ELSE IF (IF e.undo # NULL THEN e.nodes[e.undo].next = NULL
             ELSE e.undohead = NULL)
    THEN e
    ELSE Bind(IF e.undo # NULL THEN e.nodes[e.undo].next ELSE e.undohead,
              LAMBDA to :
         IF ~Live(e, to) THEN [e EXCEPT !.fault = TRUE]
         ELSE
         Bind(e.nodes[to], LAMBDA u :
         Bind(replace([e EXCEPT !.undo = to], u.pos, u.erased, u.redobuf,
                      FALSE), LAMBDA r :
         Bind(moveto(r, u.pos, FALSE), LAMBDA m :
             IF m.fault THEN m ELSE [m EXCEPT !.dirty = TRUE]))))

(* ---------------------------------------------------------------------- *)
(* Clipboard                                                               *)
(* ---------------------------------------------------------------------- *)
(* The clipboard after copy_selection(): clip is the clipboard before. *)
copy_selection(e, clip) ==
    Bind(get_selection(e), LAMBDA sel :
        IF ~sel.ok THEN clip
        ELSE CopyInto(e, sel.start, sel.end - sel.start))

cut_selection(e) == erase_selection(e)

paste_selection(e, clip) ==
    Bind(erase_selection(e), LAMBDA x :
    Bind(insert(x, x.linepos + x.col, clip), LAMBDA i :
        moveto(i, i.linepos + i.col + Len(clip), FALSE)))

(* ---------------------------------------------------------------------- *)
(* Editor commands                                                         *)
(* ---------------------------------------------------------------------- *)
(* The struct editor as create_editor() leaves it: all bytes zero, so no   *)
(* buffer (start = gap = rest = end = NULL) and anchor = 0.                 *)
memset_editor == [load_file(<<>>) EXCEPT !.gapsize = 0, !.anchor = 0]

RECURSIVE Concat(_)
Concat(chunks) ==
    IF chunks = <<>> THEN <<>> ELSE Head(chunks) \o Concat(Tail(chunks))

(* What the calls of fread() return, in order. *)
StdinChunks ==
    {<<>>, <<<<97, 98>>>>, <<<<97>>, <<98>>>>, <<<<97>>, <<98, LF>>>>}

(* The while loop of read_from_stdin(): chunks is what the calls of fread() *)
(* returned, in order.                                                      *)
RECURSIVE read_chunks(_, _, _)
read_chunks(e, pos, chunks) ==
    IF chunks = <<>> THEN e
    ELSE read_chunks(insert(e, pos, Head(chunks)), pos + Len(Head(chunks)),
                     Tail(chunks))

read_from_stdin(e, chunks) ==
    [read_chunks(e, 0, chunks) EXCEPT !.dirty = FALSE]

(* save_file(): written tells whether open() and both write() calls         *)
(* succeeded.                                                               *)
save_file(e, written) ==
    IF written THEN clear_undo([e EXCEPT !.dirty = FALSE]) ELSE e

(* Whether save_editor() gets as far as save_file(): ask is the outcome of  *)
(* the "Save as" prompt, exists that of access(), yes the answer to the     *)
(* overwrite question.                                                      *)
save_editor_saves(e, ask, exists, yes) ==
    /\ e.dirty \/ e.newfile
    /\ e.newfile => ask.ok /\ (exists => yes)

save_editor(e, ask, exists, yes, written) ==
    IF save_editor_saves(e, ask, exists, yes)
    THEN save_file([e EXCEPT !.newfile = FALSE], written)
    ELSE e

(* pipe_command(): ask is the outcome of the prompt, runs tells whether    *)
(* popen() succeeds, chunks are the blocks fread() returns.                *)
pipe_command(e, ask, runs, chunks) ==
    IF ~ask.ok \/ ~runs THEN e
    ELSE Bind(erase_selection(e), LAMBDA x :
         Bind(read_chunks(x, x.linepos + x.col, chunks), LAMBDA r :
             moveto(r, x.linepos + x.col + Len(Concat(chunks)), FALSE)))

(* prompt(): typed is the line as the user left it when ending the prompt  *)
(* with Enter, esc is TRUE when the prompt was ended with Escape.          *)
prompt(typed, esc) ==
    [ok |-> ~esc /\ Len(typed) > 0, linebuf |-> typed]

(* The C string that starts at ed->start + from once close_gap() has put   *)
(* the text in front of the gap and a NUL after it.  The cells of the gap  *)
(* behind that NUL are indeterminate; r.off is TRUE when the string runs   *)
(* off the buffer.                                                         *)
RECURSIVE UntilNul(_)
UntilNul(bytes) ==
    IF bytes = <<>> \/ Head(bytes) = NUL THEN <<>>
    ELSE <<Head(bytes)>> \o UntilNul(Tail(bytes))

CString(e, from) ==
    LET len == text_length(e)
    IN  IF from > len
        THEN [off |-> e.junk # NUL, str |-> <<>>]
        ELSE IF from < 0
        THEN [off |-> FALSE,
              str |-> UntilNul(Fill(0 - from, e.junk) \o e.pre)]
        ELSE [off |-> FALSE, str |-> UntilNul(Drop(e.pre, from))]

(* strstr(): the offset of the first occurrence of needle, or -1. *)
strstr(hay, needle) ==
    LET n    == Len(needle)
        hits == {i \in 0..(Len(hay) - n) : SubSeq(hay, i + 1, i + n) = needle}
    IN  IF hits = {} THEN -1
        ELSE CHOOSE i \in hits : \A j \in hits : i <= j

(* find_text() from "if (!ed->env->search) return;" on. *)
find_text(e, srch) ==
    IF Len(srch) = 0 THEN e
    ELSE Bind(close_gap(e), LAMBDA c :
         IF c.fault THEN c
         ELSE
         Bind(c.linepos + c.col, LAMBDA from :
         Bind(CString(c, from), LAMBDA hay :
             IF hay.off THEN [c EXCEPT !.fault = TRUE]
             ELSE Bind(strstr(hay.str, srch), LAMBDA match :
                  LET pos == from + match
                  IN  IF match >= 0
                      THEN moveto([c EXCEPT !.anchor = pos],
                                  pos + Len(srch), TRUE)
                      ELSE c))))

(* atoi(): optional sign, then the leading decimal digits. *)
RECURSIVE atoi_digits(_, _)
atoi_digits(s, acc) ==
    IF s = <<>> \/ Head(s) < 48 \/ Head(s) > 57 THEN acc
    ELSE atoi_digits(Tail(s), 10 * acc + (Head(s) - 48))

atoi(s) ==
    IF s # <<>> /\ Head(s) = 45 THEN 0 - atoi_digits(Tail(s), 0)
    ELSE atoi_digits(s, 0)

(* The for loop of goto_line(). *)
RECURSIVE goto_walk(_, _, _, _)
goto_walk(e, pos, l, lineno) ==
    IF l < lineno - 1
    THEN Bind(next_line(e, pos), LAMBDA nxt :
             IF nxt < 0 THEN nxt ELSE goto_walk(e, nxt, l + 1, lineno))
    ELSE pos

goto_line(e, ask) ==
    Bind([e EXCEPT !.anchor = NOANCHOR], LAMBDA a :
        IF ~ask.ok THEN a
        ELSE Bind(atoi(ask.linebuf), LAMBDA lineno :
             Bind(IF lineno > 0 THEN goto_walk(a, 0, 0, lineno) ELSE -1,
                  LAMBDA pos :
                 IF pos >= 0 THEN moveto(a, pos, TRUE) ELSE a)))

(* ---------------------------------------------------------------------- *)
(* The gap buffer alone: replace() and close_gap() against a plain         *)
(* sequence spliced the same way.                                          *)
(* ---------------------------------------------------------------------- *)
Splice(s, pos, len, src) ==
    SubSeq(s, 1, pos) \o src \o SubSeq(s, pos + len + 1, Len(s))

BigBlock == [i \in 1..(MINEXTEND + 1) |-> 97 + (i % 2)]
GapTexts == {<<>>, <<97>>, <<97, LF, 98>>}
GapSources == {<<>>, <<99>>, BigBlock}

(* ---------------------------------------------------------------------- *)
(* struct env: the console and the line buffer                             *)
(* ---------------------------------------------------------------------- *)
(* The variable con holds env->cols, env->linebuf (the block it points to, *)
(* the size that block was allocated with and the bytes at its start) and  *)
(* the locals of a running prompt(): msg, buf, maxlen, len.  Not in the    *)
(* program: p.typed is what the user typed and has not erased, fault that  *)
(* a write went through a freed or too small block.                        *)
LINEBUF_EXTRA == 32

Block == {1, 2}

WinCols == {20, 80}

Messages == {"Find: ", "Goto line: ", "Open file: ", "Save as: ", "Command: "}

strlen(msg) == Len(msg)

(* The start of what draw_full_statusline() leaves in linebuf:            *)
(* STATUS_COLOR begins with "\033[".                                       *)
StatusLine == <<27, 91>>

NoPrompt == [on |-> FALSE, msg |-> "", buf |-> NULL, maxlen |-> 0, len |-> 0,
             typed |-> <<>>]

NoCon == [cols |-> 80, linebuf |-> 1, size |-> 80 + LINEBUF_EXTRA,
          text |-> <<>>, p |-> NoPrompt, fault |-> FALSE]

(* get_console_size(): ws_col is what the ioctl reports, moved tells       *)
(* whether realloc() returns another block and frees the old one.          *)
get_console_size(c, ws_col, moved) ==
    [c EXCEPT !.cols = ws_col,
              !.linebuf = IF moved THEN CHOOSE b \in Block : b # @ ELSE @,
              !.size = ws_col + LINEBUF_EXTRA]

(* redraw_screen(): get_console_size(), then the screen and the status     *)
(* line are composed in linebuf.                                           *)
redraw_screen(c, ws_col, moved) ==
    [get_console_size(c, ws_col, moved) EXCEPT !.text = StatusLine]

handle_winch(c, ws_col, moved) == redraw_screen(c, ws_col, moved)

(* prompt() up to its loop; without a selection get_selected_text()        *)
(* returns 0.                                                              *)
prompt_enter(c, msg) ==
    [c EXCEPT !.p = [on |-> TRUE, msg |-> msg, buf |-> c.linebuf,
                     maxlen |-> c.cols - strlen(msg) - 1, len |-> 0,
                     typed |-> <<>>]]

(* buf[i] = ch in prompt(): defined when buf is the live block and i lies  *)
(* within it.                                                              *)
prompt_store(c, i, ch) ==
    IF c.p.buf # c.linebuf \/ i < 0 \/ i >= c.size
    THEN [c EXCEPT !.fault = TRUE]
    ELSE [c EXCEPT !.text = [k \in 1..Max(Len(@), i + 1) |->
                               IF k = i + 1 THEN ch
                               ELSE IF k <= Len(@) THEN @[k] ELSE NUL]]

(* One round of the loop of prompt() for a printable key. *)
prompt_char(c, ch) ==
    IF c.p.len < c.p.maxlen
    THEN [prompt_store(c, c.p.len, ch) EXCEPT
             !.p.len = @ + 1, !.p.typed = Append(@, ch)]
    ELSE c

prompt_backspace(c) ==
    IF c.p.len > 0
    THEN [c EXCEPT !.p.len = @ - 1, !.p.typed = Take(@, c.p.len - 1)]
    ELSE c

(* KEY_ENTER: buf[len] = 0 and the prompt returns. *)
prompt_return(c) == [prompt_store(c, c.p.len, NUL) EXCEPT !.p.on = FALSE]

(* KEY_ESC: the prompt returns 0. *)
prompt_escape(c) == [c EXCEPT !.p.on = FALSE]

(* ---------------------------------------------------------------------- *)
(* struct env: the ring of documents                                       *)
(* ---------------------------------------------------------------------- *)
(* The blocks malloc(sizeof(struct editor)) can return.  The variable ed   *)
(* holds the struct editor of env->current; docs[d].e holds that of every  *)
(* other document.  Not fields of struct env: left tells that main has     *)
(* left its loop, trail lists the keys that act on the ring, order the     *)
(* documents in the order they were created, made the document the last    *)
(* key created, removed whether it deleted one, yes the documents for      *)
(* which the user answered yes to it, unsaved the documents that were      *)
(* dirty when main left its loop, exit the value main returned (<<>> while  *)
(* it runs), argfail that a file of the command line could be neither      *)
(* loaded nor created, stale that the last key read a field of a document  *)
(* after delete_editor() freed it.                                         *)
Doc == 1..MaxDocs

Parked == load_file(<<>>)

NoDoc == [live |-> FALSE, next |-> NULL, prev |-> NULL, name |-> 0,
          e |-> Parked]

NoEnv ==
    [current |-> NULL, docs |-> [d \in Doc |-> NoDoc], untitled |-> 0,
     left |-> FALSE, trail |-> <<>>, order |-> <<>>, made |-> NULL,
     removed |-> FALSE, yes |-> {}, unsaved |-> {}, exit |-> <<>>,
     argfail |-> FALSE, stale |-> FALSE]

(* Some free block, or NULL when the modelled heap has none. *)
FreeDoc(v) ==
    IF \A d \in Doc : v.docs[d].live THEN NULL
    ELSE CHOOSE d \in Doc : ~v.docs[d].live
                            /\ \A x \in Doc : ~v.docs[x].live => d <= x

(* create_editor() with the new block d spliced in front of current. *)
create_editor_before(v, d) ==
    IF v.current = NULL
    THEN [v EXCEPT !.docs[d] = [NoDoc EXCEPT !.live = TRUE, !.next = d,
                                             !.prev = d],
                   !.current = d, !.order = Append(@, d), !.made = d]
    ELSE LET c == v.current
             p == v.docs[c].prev
         IN  [v EXCEPT
                !.docs = [x \in Doc |->
                    IF x = d
                    THEN [NoDoc EXCEPT !.live = TRUE, !.next = c, !.prev = p]
                    ELSE IF x = c /\ x = p
                    THEN [v.docs[x] EXCEPT !.next = d, !.prev = d]
                    ELSE IF x = c THEN [v.docs[x] EXCEPT !.prev = d]
                    ELSE IF x = p THEN [v.docs[x] EXCEPT !.next = d]
                    ELSE v.docs[x]],
                !.current = d, !.order = Append(@, d), !.made = d]

(* create_editor(): d is the block malloc returned. *)
create_editor(v, d) ==
    IF v.current = NULL
    THEN [v EXCEPT !.docs[d] = [NoDoc EXCEPT !.live = TRUE, !.next = d,
                                             !.prev = d],
                   !.current = d, !.order = Append(@, d), !.made = d]
    ELSE LET c == v.current
             n == v.docs[c].next
         IN  [v EXCEPT
                !.docs = [x \in Doc |->
                    IF x = d
                    THEN [NoDoc EXCEPT !.live = TRUE, !.next = n, !.prev = c]
                    ELSE IF x = c /\ x = n
                    THEN [v.docs[x] EXCEPT !.next = d, !.prev = d]
                    ELSE IF x = c THEN [v.docs[x] EXCEPT !.next = d]
                    ELSE IF x = n THEN [v.docs[x] EXCEPT !.prev = d]
                    ELSE v.docs[x]],
                !.current = d, !.order = Append(@, d), !.made = d]

(* delete_editor() as far as it touches the ring; d is ed. *)
delete_editor(v, d) ==
    LET n == v.docs[d].next
        p == v.docs[d].prev
    IN  [v EXCEPT
           !.current = IF n = d THEN NULL ELSE p,
           !.docs = [x \in Doc |->
               IF x = d THEN NoDoc
               ELSE IF x = n /\ x = p
               THEN [v.docs[x] EXCEPT !.prev = p, !.next = n]
               ELSE IF x = n THEN [v.docs[x] EXCEPT !.prev = p]
               ELSE IF x = p THEN [v.docs[x] EXCEPT !.next = n]
               ELSE v.docs[x]],
           !.order = SelectSeq(@, LAMBDA x : x # d)]

(* find_editor(): the first document from d along next with that name. *)
RECURSIVE find_editor_walk(_, _, _, _)
find_editor_walk(v, d, name, fuel) ==
    IF fuel = 0 THEN NULL
    ELSE IF v.docs[d].name = name THEN d
    ELSE IF v.docs[d].next = v.current THEN NULL
    ELSE find_editor_walk(v, v.docs[d].next, name, fuel - 1)

find_editor(v, name) == find_editor_walk(v, v.current, name, MaxDocs)

next_file(v) == [v EXCEPT !.current = v.docs[v.current].next]

prev_file(v) == [v EXCEPT !.current = v.docs[v.current].prev]

(* The documents of the ring whose dirty flag is set; e is *env->current. *)
DirtyDocs(v, e) ==
    {d \in Doc : v.docs[d].live
                 /\ IF d = v.current THEN e.dirty ELSE v.docs[d].e.dirty}

(* quit() that never asks. *)
quit_unasked(v, dirty, ans) == [ok |-> TRUE, yes |-> {}]

(* quit(): ans[d] is the answer the user gives when asked about d. *)
RECURSIVE quit_walk(_, _, _, _, _, _)
quit_walk(v, dirty, ans, d, yes, fuel) ==
    IF d \in dirty /\ ~ans[d] THEN [ok |-> FALSE, yes |-> yes]
    ELSE IF v.docs[d].next = v.current \/ fuel = 0
    THEN [ok |-> TRUE, yes |-> yes \cup ({d} \cap dirty)]
    ELSE quit_walk(v, dirty, ans, v.docs[d].next, yes \cup ({d} \cap dirty),
                   fuel - 1)

quit(v, dirty, ans) == quit_walk(v, dirty, ans, v.current, {}, MaxDocs)

(* The struct editor of env->current is the variable ed; Park stores e as  *)
(* that of the current document, Unpark takes out that of the new one.     *)
Park(v, e) == [v EXCEPT !.docs[v.current].e = e]

Unpark(v) ==
    [env |-> [v EXCEPT !.docs[v.current].e = Parked],
     ed |-> v.docs[v.current].e]

Untitled(n) == <<85, 48 + n>>

(* create_editor() and new_file(ed, "") in a workspace without current. *)
first_editor(v, d) ==
    [env |-> [create_editor(v, d) EXCEPT !.untitled = @ + 1,
                                         !.docs[d].name = Untitled(v.untitled + 1)],
     ed |-> new_file]

new_editor(v, e, d) == first_editor(Park(v, e), d)

(* open_editor(): ask is the outcome of the prompt, loads tells whether     *)
(* load_file() succeeds, text is what it reads.                             *)
open_editor(v, e, ask, loads, text, d) ==
    IF ~ask.ok THEN [env |-> v, ed |-> e]
    ELSE IF find_editor(v, ask.linebuf) # NULL
    THEN Unpark([Park(v, e) EXCEPT !.current = find_editor(v, ask.linebuf)])
    ELSE IF loads
    THEN [env |-> [create_editor(Park(v, e), d) EXCEPT
                      !.docs[d].name = ask.linebuf],
          ed |-> load_file(text)]
    ELSE Unpark([delete_editor(create_editor(Park(v, e), d), d) EXCEPT
                    !.made = NULL])

(* close_editor(): yes is the answer to the question asked when the        *)
(* document is dirty.                                                       *)
close_editor(v, e, yes) ==
    IF e.dirty /\ ~yes THEN [env |-> v, ed |-> e]
    ELSE LET gone == [delete_editor(v, v.current) EXCEPT
                         !.removed = TRUE,
                         !.yes = IF e.dirty /\ yes THEN {v.current} ELSE {}]
         IN  IF clear_undo(e).fault THEN [env |-> gone, ed |-> clear_undo(e)]
             ELSE IF gone.current = NULL
             THEN first_editor(gone, FreeDoc(gone))
             ELSE Unpark(gone)

(* The bytes at which jump_to_editor() ends the file name: the characters  *)
(* of its strchr() string and that string's terminating NUL.               *)
JumpStops ==
    {33, 64, 34, 39, 35, 37, 38, 40, 41, 91, 93, 123, 125, 42, 63, 43, 58,
     59, CR, LF, TAB, 32, NUL}

(* The file name from pos on; FILENAME_MAX exceeds every modelled text. *)
RECURSIVE jump_name(_, _, _)
jump_name(e, pos, acc) ==
    IF get(e, pos) < 0 \/ get(e, pos) \in JumpStops
    THEN [name |-> acc, pos |-> pos]
    ELSE jump_name(e, pos + 1, Append(acc, get(e, pos)))

(* The decimal digits from pos on. *)
RECURSIVE jump_lineno(_, _, _)
jump_lineno(e, pos, lineno) ==
    IF get(e, pos) >= 48 /\ get(e, pos) <= 57
    THEN jump_lineno(e, pos + 1, lineno * 10 + (get(e, pos) - 48))
    ELSE lineno

(* filename and lineno as jump_to_editor() takes them from the selection   *)
(* or from the text at the cursor.                                         *)
jump_target(e) ==
    IF get_selection(e).ok
    THEN [name |-> UntilNul(copy(e, get_selection(e).start,
                                 get_selection(e).end - get_selection(e).start)),
          lineno |-> 0]
    ELSE Bind(jump_name(e, e.linepos + e.col, <<>>), LAMBDA f :
             [name |-> UntilNul(f.name),
              lineno |-> IF get(e, f.pos) = 58
                         THEN jump_lineno(e, f.pos + 1, 0) ELSE 0])

(* The tail of jump_to_editor(): the cursor of e goes to line lineno. *)
jump_line(e, lineno) ==
    IF lineno > 0
    THEN Bind(goto_walk(e, 0, 0, lineno), LAMBDA pos :
             IF pos >= 0 THEN moveto(e, pos, TRUE) ELSE e)
    ELSE e

(* jump_to_editor(): loads tells whether load_file() succeeds, text is     *)
(* what it reads, d the block create_editor() gets.                        *)
jump_to_editor(v, e, loads, text, d) ==
    Bind(jump_target(e), LAMBDA t :
        IF t.name = <<>> THEN [env |-> v, ed |-> e]
        ELSE Bind(
            IF find_editor(v, t.name) # NULL
            THEN Unpark([Park(v, e) EXCEPT
                            !.current = find_editor(v, t.name)])
            ELSE IF loads
            THEN [env |-> [create_editor(Park(v, e), d) EXCEPT
                              !.docs[d].name = t.name],
                  ed |-> load_file(text)]
            ELSE Unpark([delete_editor(create_editor(Park(v, e), d), d)
                            EXCEPT !.made = NULL]),
            LAMBDA r : [env |-> r.env, ed |-> jump_line(r.ed, t.lineno)]))

NoHist == [last |-> "init"]

GapPositions(e) ==
    {0, Gap(e) - 1, Gap(e), Gap(e) + 1, text_length(e)} \cap (0..text_length(e))

InitGap ==
    /\ \E t \in GapTexts :
          /\ ed = load_file(t)
          /\ ref = [seq |-> t, len0 |-> Len(t), ins |-> 0, era |-> 0,
                    ops |-> 0, big |-> 0]
    /\ clipboard = <<>>
    /\ search = <<>>
    /\ hist = NoHist
    /\ env = NoEnv
    /\ con = NoCon

GapReplace ==
    /\ ref.ops < MaxGapOps
    /\ \E pos \in GapPositions(ed), len \in 0..MaxErase, src \in GapSources :
          /\ pos + len <= text_length(ed)
          /\ Len(src) > MINEXTEND => ref.big < MaxBig
          /\ ed' = replace(ed, pos, len, src, FALSE)
          /\ ref' = [seq |-> Splice(ref.seq, pos, len, src),
                     len0 |-> ref.len0,
                     ins |-> ref.ins + Len(src),
                     era |-> ref.era + len,
                     ops |-> ref.ops + 1,
                     big |-> ref.big + (IF Len(src) > MINEXTEND THEN 1 ELSE 0)]
    /\ UNCHANGED <<clipboard, search, hist, env, con>>

GapClose ==
    /\ Gap(ed) # text_length(ed)
    /\ ed' = close_gap(ed)
    /\ UNCHANGED <<clipboard, search, ref, hist, env, con>>

NextGap == GapReplace \/ GapClose

SpecGap == InitGap /\ [][NextGap]_vars

(* The same calls of replace() when malloc() may have no memory for a      *)
(* larger buffer; ref.oom tells that the last call had to grow the gap     *)
(* and malloc() returned NULL.                                             *)
InitFull ==
    /\ \E t \in GapTexts :
          /\ ed = load_file(t)
          /\ ref = [ops |-> 0, big |-> 0, oom |-> FALSE, grew |-> FALSE]
    /\ clipboard = <<>>
    /\ search = <<>>
    /\ hist = NoHist
    /\ env = NoEnv
    /\ con = NoCon

FullReplace ==
    /\ ref.ops < MaxGapOps
    /\ ~ed.fault
    /\ \E pos \in GapPositions(ed), len \in 0..MaxErase, src \in GapSources,
          full \in BOOLEAN :
          /\ pos + len <= text_length(ed)
          /\ Len(src) > MINEXTEND => ref.big < MaxBig
          /\ ed' = [replace([ed EXCEPT !.full = full], pos, len, src, FALSE)
                       EXCEPT !.full = FALSE]
          /\ ref' = [ops |-> ref.ops + 1,
                     big |-> ref.big + (IF Len(src) > MINEXTEND THEN 1 ELSE 0),
                     oom |-> full /\ Len(src) - len > Rest(ed) - Gap(ed),
                     grew |-> ~full /\ Len(src) - len > Rest(ed) - Gap(ed)]
    /\ UNCHANGED <<clipboard, search, hist, env, con>>

NextFull == FullReplace

SpecFull == InitFull /\ [][NextFull]_vars

(* C1: after any sequence of in-range replace calls the length is the     *)
(* initial length plus the inserted minus the erased bytes, and            *)
(* copy(0, length) returns the reference sequence spliced the same way.    *)
C1_ReplaceMatchesReference ==
    /\ ~ed.fault
    /\ text_length(ed) = ref.len0 + ref.ins - ref.era
    /\ copy(ed, 0, text_length(ed)) = ref.seq

C1_Witness ==
    /\ ~ed.fault
    /\ ref.ops = MaxGapOps
    /\ ref.big >= 1
    /\ ref.era >= 1
    /\ Gap(ed) < text_length(ed)
    /\ copy(ed, 0, text_length(ed)) = ref.seq

(* ---------------------------------------------------------------------- *)
(* edit(): one key per step                                                *)
(* ---------------------------------------------------------------------- *)
KEY_BACKSPACE == 257
KEY_DEL == 260
KEY_LEFT == 261
KEY_RIGHT == 262
KEY_UP == 263
KEY_DOWN == 264
KEY_HOME == 265
KEY_END == 266
KEY_ENTER == 267
KEY_TAB == 268
KEY_PGUP == 269
KEY_PGDN == 270
KEY_CTRL_LEFT == 271
KEY_CTRL_RIGHT == 272
KEY_CTRL_HOME == 275
KEY_CTRL_END == 276
KEY_SHIFT_LEFT == 278
KEY_SHIFT_RIGHT == 279
KEY_SHIFT_UP == 280
KEY_SHIFT_DOWN == 281
KEY_SHIFT_PGUP == 282
KEY_SHIFT_PGDN == 283
KEY_SHIFT_HOME == 284
KEY_SHIFT_END == 285
KEY_SHIFT_CTRL_LEFT == 287
KEY_SHIFT_CTRL_RIGHT == 288
KEY_SHIFT_CTRL_HOME == 291
KEY_SHIFT_CTRL_END == 292
KEY_CTRL_TAB == 277
KEY_SHIFT_TAB == 286
KEY_F3 == 294

ctrl(c) == c - 96

(* The inputs of a session. *)
MaxKeys == 4
MaxTyped == 5
MaxUndoKeys == 6
MaxAny == 3
MaxAlloc == 2
MaxDocKeys == 4
MaxFindKeys == 5
MaxRingKeys == 4
MaxRedoKeys == 6
MaxJumpKeys == 3
MaxPromptKeys == 3
MaxPromptLen == 2
MaxMainKeys == 3
MaxWordKeys == 3
LoadTexts == {<<>>, <<97, 98>>, <<97, CR, LF, 98>>, <<97, LF, 98, 32>>, <<TAB, 97>>}
UndoTexts == {<<>>, <<97, 98>>}
NavTexts == {<<97, 98>>, <<97, LF, 98>>, <<TAB, 97>>}
Chars == {97}
TypeChars == {97, 98, 99}
Needles == {<<97>>, <<98>>}
Typed == {<<>>, <<49>>, <<50>>, <<51>>}

AllocSeqs ==
    UNION {[1..n -> BOOLEAN] : n \in 0..MaxAlloc}

RecordingKeys ==
    {"insert_char", "newline", "backspace", "del", "cut_selection",
     "paste_selection"}

(* The keys that edit() dispatches to a motion with select = 0. *)
PlainMotionKeys ==
    {KEY_UP, KEY_DOWN, KEY_LEFT, KEY_RIGHT, KEY_HOME, KEY_END, KEY_PGUP,
     KEY_PGDN, KEY_CTRL_LEFT, KEY_CTRL_RIGHT, KEY_CTRL_HOME, KEY_CTRL_END}

MotionKeys ==
    {"up", "down", "left", "right", "home", "end", "pageup", "pagedown",
     "wordleft", "wordright", "top", "bottom"}

(* The least position >= p at which needle occurs in text, or -1. *)
FirstMatch(text, p, needle) ==
    LET n    == Len(needle)
        hits == {m \in Max(p, 0)..(Len(text) - n) :
                    \A i \in 1..n : text[m + i] = needle[i]}
    IN  IF hits = {} THEN -1
        ELSE CHOOSE m \in hits : \A k \in hits : m <= k

(* The store of undo information a recording key performs first, as the    *)
(* arguments (pos, len, bufsize) of replace().                             *)
FirstStore(name, e, clip) ==
    LET sel == get_selection(e)
        cur == e.linepos + e.col
    IN  IF sel.ok
        THEN [pos |-> sel.start, len |-> sel.end - sel.start, bufsize |-> 0]
        ELSE IF name \in {"insert_char", "newline"}
        THEN [pos |-> cur, len |-> 0, bufsize |-> 1]
        ELSE IF name = "paste_selection"
        THEN [pos |-> cur, len |-> 0, bufsize |-> Len(clip)]
        ELSE IF name = "backspace"
        THEN [pos |-> cur - 1, len |-> 1, bufsize |-> 0]
        ELSE [pos |-> cur, len |-> 1, bufsize |-> 0]

(* A single-byte store contiguous with, and of the same kind as, the       *)
(* record the undo cursor is at.                                           *)
Contiguous(e, st) ==
    /\ Live(e, e.undo)
    /\ LET u == e.nodes[e.undo]
       IN  \/ /\ st.len = 0 /\ st.bufsize = 1 /\ u.erased = 0
              /\ st.pos = u.pos + u.inserted
           \/ /\ st.len = 1 /\ st.bufsize = 0 /\ u.inserted = 0
              /\ st.pos \in {u.pos, u.pos - 1}

(* The number of records from a back along prev. *)
RECURSIVE chain_len(_, _, _)
chain_len(e, a, fuel) ==
    IF a = NULL \/ fuel = 0 \/ ~Live(e, a) THEN 0
    ELSE 1 + chain_len(e, e.nodes[a].prev, fuel - 1)

ChainLen(e, a) == chain_len(e, a, MaxRec)

LiveRecords(e) == Cardinality({a \in Addr : e.nodes[a].live})

(* No selection: erase_selection() returns 0. *)
NoSelection(e) == ~get_selection(e).ok

(* "\r\n" at position p. *)
AtCrLf(e, p) == get(e, p) = CR /\ get(e, p + 1) = LF

(* text without the n bytes from position p on. *)
Without(text, p, n) == Take(text, p) \o Drop(text, p + n)

(* The keys of the session "abc", backspace, backspace. *)
Scenario == <<97, 98, 99, KEY_BACKSPACE, KEY_BACKSPACE>>

(* What is remembered of the session so far: the last handler, the number  *)
(* of keys (counted when the session has a limit, max > 0), how many keys  *)
(* of Scenario the session has typed so far (-1 once it left it), the      *)
(* loaded text, and what the properties below refer to.                    *)
InitHist(text, max) ==
    [last |-> "init", keys |-> 0, max |-> max, typed |-> 0, loaded |-> text,
     noredo |-> TRUE, edited |-> FALSE,
     undid |-> FALSE, want |-> <<>>,
     run |-> [undos |-> 0, redos |-> 0, snap |-> <<>>],
     match |-> -1, slen |-> 0,
     since |-> "none", moved |-> FALSE, contiguous |-> FALSE,
     kept |-> 0, dropped |-> 0, base |-> text, plain |-> FALSE,
     join |-> FALSE, crlf |-> FALSE, edge |-> FALSE]

Track(name, key, e1, srch) ==
    LET recorded == name \in RecordingKeys /\ ~e1.fault /\ e1.first # "none"
        undoes   == name = "undo" /\ ed.undo # NULL
        matching == undoes /\ hist.edited /\ ed.undo = ed.undotail
                           /\ Live(ed, ed.undo)
        finds    == name = "find_text" /\ Len(srch) > 0
    IN  [last |-> name,
         keys |-> IF hist.max = 0 THEN 0 ELSE hist.keys + 1,
         max |-> hist.max,
         typed |-> IF hist.typed >= 0 /\ hist.typed < Len(Scenario)
                      /\ key = Scenario[hist.typed + 1]
                   THEN hist.typed + 1 ELSE -1,
         loaded |-> hist.loaded,
         noredo |-> hist.noredo /\ name # "redo",
         edited |-> recorded,
         undid |-> matching,
         want |-> IF matching THEN ed.nodes[ed.undo].before ELSE <<>>,
         run |-> IF undoes /\ hist.last = "undo" /\ hist.run.undos > 0
                    /\ hist.run.redos = 0
                 THEN [hist.run EXCEPT !.undos = @ + 1]
                 ELSE IF undoes
                 THEN [undos |-> 1, redos |-> 0, snap |-> Content(ed)]
                 ELSE IF name = "redo" /\ hist.last \in {"undo", "redo"}
                         /\ hist.run.redos < hist.run.undos
                 THEN [hist.run EXCEPT !.redos = @ + 1]
                 ELSE [undos |-> 0, redos |-> 0, snap |-> <<>>],
         match |-> IF finds
                   THEN FirstMatch(Content(ed), ed.linepos + ed.col, srch)
                   ELSE -1,
         slen |-> IF finds THEN Len(srch) ELSE 0,
         since |-> IF recorded THEN "edit"
                   ELSE IF name \in MotionKeys /\ hist.since # "none"
                   THEN "moved"
                   ELSE "none",
         moved |-> recorded /\ hist.since = "moved",
         contiguous |-> recorded /\ hist.since = "moved"
                        /\ Contiguous(ed, FirstStore(name, ed, clipboard)),
         kept |-> IF recorded THEN ChainLen(ed, ed.undo) ELSE 0,
         dropped |-> IF recorded
                     THEN ChainLen(ed, ed.undotail) - ChainLen(ed, ed.undo)
                     ELSE 0,
         base |-> IF name = "save_file" /\ ~e1.fault THEN Content(e1)
                  ELSE hist.base,
         plain |-> key \in PlainMotionKeys,
         join |-> name = "backspace" /\ NoSelection(ed)
                  /\ ed.col = 0 /\ ed.line > 0,
         crlf |-> /\ NoSelection(ed)
                  /\ \/ name = "backspace"
                        /\ AtCrLf(ed, ed.linepos + ed.col - 2)
                     \/ name = "del" /\ AtCrLf(ed, ed.linepos + ed.col),
         edge |-> /\ NoSelection(ed)
                  /\ \/ name = "backspace" /\ ed.linepos + ed.col = 0
                     \/ name = "del"
                        /\ ed.linepos + ed.col = text_length(ed)]

(* The editor as a key handler finds it, and as it leaves it. *)
Start(j, al) ==
    [ed EXCEPT !.junk = j, !.alloc = al, !.first = "none", !.news = 0]

Finish(e1) ==
    IF e1.fault THEN [ed EXCEPT !.fault = TRUE]
    ELSE [e1 EXCEPT !.junk = NUL, !.alloc = <<>>]

Fits(e1) ==
    /\ ~e1.nofit
    /\ \/ e1.fault
       \/ /\ e1.alloc = <<>>
          /\ Len(e1.pre) + Len(e1.post) <= MaxLen
          /\ e1.over <= MaxLen
          /\ e1.line \in (0 - MaxLen - 1)..(MaxLen + 1)
          /\ e1.topline \in (0 - MaxLen - 1)..(MaxLen + 1)

Dispatch(name, key, e1, clip, srch) ==
    /\ ~ed.fault
    /\ ~env.left
    /\ hist.max = 0 \/ hist.keys < hist.max
    /\ Fits(e1)
    /\ ed' = Finish(e1)
    /\ clipboard' = IF e1.fault THEN clipboard ELSE clip
    /\ search' = IF e1.fault THEN search ELSE srch
    /\ hist' = Track(name, key, e1, srch)
    /\ UNCHANGED <<ref, env, con>>

Motion(name, key, e1) == Dispatch(name, key, e1, clipboard, search)

KeyChar ==
    \E ch \in Chars, j \in Garbage, al \in AllocSeqs :
        Motion("insert_char", ch, insert_char(Start(j, al), ch))

TypeChar ==
    \E ch \in TypeChars, j \in Garbage, al \in AllocSeqs :
        Motion("insert_char", ch, insert_char(Start(j, al), ch))

KeyTab ==
    \E j \in Garbage, al \in AllocSeqs :
        Motion("insert_char", KEY_TAB, insert_char(Start(j, al), TAB))

KeyEnter ==
    \E j \in Garbage, al \in AllocSeqs :
        Motion("newline", KEY_ENTER, newline(Start(j, al)))

KeyBackspace ==
    \E j \in Garbage, al \in AllocSeqs :
        Motion("backspace", KEY_BACKSPACE, backspace(Start(j, al)))

KeyDel ==
    \E j \in Garbage, al \in AllocSeqs :
        Motion("del", KEY_DEL, del(Start(j, al)))

KeyUndo ==
    \E j \in Garbage :
        Motion("undo", ctrl(122), undo(Start(j, <<>>)))

KeyRedo ==
    \E j \in Garbage :
        Motion("redo", ctrl(114), redo(Start(j, <<>>)))

KeyUp ==
    \E j \in Garbage, select \in BOOLEAN :
        Motion("up", IF select THEN KEY_SHIFT_UP ELSE KEY_UP,
               up(Start(j, <<>>), select))

KeyDown ==
    \E j \in Garbage, select \in BOOLEAN :
        Motion("down", IF select THEN KEY_SHIFT_DOWN ELSE KEY_DOWN,
               down(Start(j, <<>>), select))

KeyLeft ==
    \E j \in Garbage, select \in BOOLEAN :
        Motion("left", IF select THEN KEY_SHIFT_LEFT ELSE KEY_LEFT,
               left(Start(j, <<>>), select))

KeyRight ==
    \E j \in Garbage, select \in BOOLEAN :
        Motion("right", IF select THEN KEY_SHIFT_RIGHT ELSE KEY_RIGHT,
               right(Start(j, <<>>), select))

KeyHome ==
    \E j \in Garbage, select \in BOOLEAN :
        Motion("home", IF select THEN KEY_SHIFT_HOME ELSE KEY_HOME,
               home(Start(j, <<>>), select))

KeyEnd ==
    \E j \in Garbage, select \in BOOLEAN :
        Motion("end", IF select THEN KEY_SHIFT_END ELSE KEY_END,
               end(Start(j, <<>>), select))

KeyPgUp ==
    \E j \in Garbage, select \in BOOLEAN :
        Motion("pageup", IF select THEN KEY_SHIFT_PGUP ELSE KEY_PGUP,
               pageup(Start(j, <<>>), select))

KeyPgDn ==
    \E j \in Garbage, select \in BOOLEAN :
        Motion("pagedown", IF select THEN KEY_SHIFT_PGDN ELSE KEY_PGDN,
               pagedown(Start(j, <<>>), select))

KeyWordLeft ==
    \E j \in Garbage, select \in BOOLEAN :
        Motion("wordleft", IF select THEN KEY_SHIFT_CTRL_LEFT ELSE KEY_CTRL_LEFT,
               wordleft(Start(j, <<>>), select))

KeyWordRight ==
    \E j \in Garbage, select \in BOOLEAN :
        Motion("wordright", IF select THEN KEY_SHIFT_CTRL_RIGHT ELSE KEY_CTRL_RIGHT,
               wordright(Start(j, <<>>), select))

KeyTop ==
    \E j \in Garbage, select \in BOOLEAN :
        Motion("top", IF select THEN KEY_SHIFT_CTRL_HOME ELSE KEY_CTRL_HOME,
               top(Start(j, <<>>), select))

KeyBottom ==
    \E j \in Garbage, select \in BOOLEAN :
        Motion("bottom", IF select THEN KEY_SHIFT_CTRL_END ELSE KEY_CTRL_END,
               bottom(Start(j, <<>>), select))

KeySelectAll ==
    \E j \in Garbage :
        Motion("select_all", ctrl(97), select_all(Start(j, <<>>)))

KeyCopy ==
    \E j \in Garbage :
        Dispatch("copy_selection", ctrl(99), Start(j, <<>>),
                 copy_selection(Start(j, <<>>), clipboard), search)

KeyCut ==
    \E j \in Garbage, al \in AllocSeqs :
        Dispatch("cut_selection", ctrl(120), cut_selection(Start(j, al)),
                 copy_selection(Start(j, al), clipboard), search)

KeyPaste ==
    \E j \in Garbage, al \in AllocSeqs :
        Motion("paste_selection", ctrl(118),
               paste_selection(Start(j, al), clipboard))

(* ctrl-f: the prompt is answered with a needle, or left with Escape. *)
KeyFind ==
    \E j \in Garbage, n \in Needles, esc \in BOOLEAN :
        LET ask == prompt(n, esc)
        IN  IF ask.ok
            THEN Dispatch("find_text", ctrl(102),
                          find_text(Start(j, <<>>), ask.linebuf),
                          clipboard, ask.linebuf)
            ELSE Motion("prompt", ctrl(102), Start(j, <<>>))

KeyFindNext ==
    \E j \in Garbage :
        Motion("find_text", ctrl(103), find_text(Start(j, <<>>), search))

KeyGoto ==
    \E j \in Garbage, t \in Typed, esc \in BOOLEAN :
        Motion(IF prompt(t, esc).ok THEN "goto_line" ELSE "prompt",
               ctrl(108),
               goto_line(Start(j, <<>>), prompt(t, esc)))

(* ctrl-s: the file name prompt, the overwrite question and the writing    *)
(* of the file have the outcomes the user and the file system give them.   *)
KeySave ==
    \E j \in Garbage, n \in Needles, esc \in BOOLEAN, exists \in BOOLEAN,
       yes \in BOOLEAN, written \in BOOLEAN :
        Motion(IF save_editor_saves(ed, prompt(n, esc), exists, yes) /\ written
               THEN "save_file"
               ELSE IF ed.newfile /\ ~prompt(n, esc).ok THEN "prompt"
               ELSE "save_editor",
               ctrl(115),
               save_editor(Start(j, <<>>), prompt(n, esc), exists, yes,
                           written))

(* ctrl-p: the output of a shell command goes into the text. *)
KeyPipe ==
    \E j \in Garbage, al \in AllocSeqs, n \in Needles, esc \in BOOLEAN,
       runs \in BOOLEAN, chunks \in StdinChunks :
        Motion(IF prompt(n, esc).ok THEN "pipe_command" ELSE "prompt",
               ctrl(112),
               pipe_command(Start(j, al), prompt(n, esc), runs, chunks))

InitEditor(texts, max) ==
    /\ \E t \in texts :
          /\ ed = IF t = <<>> THEN new_file ELSE load_file(t)
          /\ hist = InitHist(t, max)
    /\ clipboard = <<>>
    /\ search = <<>>
    /\ ref = <<>>
    /\ env = NoEnv
    /\ con = NoCon

(* Sessions of at most MaxKeys editing, cursor, undo and redo keys. *)
Init == InitEditor(LoadTexts, MaxKeys)

Next ==
    \/ KeyChar \/ KeyEnter \/ KeyBackspace \/ KeyDel
    \/ KeyUndo \/ KeyRedo
    \/ KeyUp \/ KeyDown \/ KeyLeft \/ KeyRight \/ KeyHome \/ KeyEnd

Spec == Init /\ [][Next]_vars

(* Sessions of at most MaxUndoKeys keys that type, erase, step sideways,   *)
(* undo and redo.                                                          *)
InitUndo == InitEditor(UndoTexts, MaxUndoKeys)

NextUndo ==
    \/ KeyChar \/ KeyBackspace \/ KeyLeft \/ KeyRight \/ KeyUndo \/ KeyRedo

SpecUndo == InitUndo /\ [][NextUndo]_vars

(* Sessions of any length that leave the text as loaded. *)
InitNav == InitEditor(NavTexts, 0)

NextNav ==
    \/ KeyUp \/ KeyDown \/ KeyLeft \/ KeyRight \/ KeyHome \/ KeyEnd
    \/ KeyPgUp \/ KeyPgDn \/ KeyWordLeft \/ KeyWordRight
    \/ KeyTop \/ KeyBottom
    \/ KeySelectAll \/ KeyCopy
    \/ KeyFind \/ KeyFindNext \/ KeyGoto

SpecNav == InitNav /\ [][NextNav]_vars

(* Sessions of at most MaxTyped keys in an empty document. *)
InitType == InitEditor({<<>>}, MaxTyped)

NextType ==
    \/ TypeChar \/ KeyBackspace \/ KeyDel
    \/ KeyLeft \/ KeyRight \/ KeyHome \/ KeyEnd

SpecType == InitType /\ [][NextType]_vars

(* Sessions of at most MaxAny keys of any kind. *)
InitAny == InitEditor(LoadTexts, MaxAny)

NextAny ==
    \/ KeyChar \/ KeyTab \/ KeyEnter \/ KeyBackspace \/ KeyDel
    \/ KeyUndo \/ KeyRedo
    \/ KeyUp \/ KeyDown \/ KeyLeft \/ KeyRight \/ KeyHome \/ KeyEnd
    \/ KeyPgUp \/ KeyPgDn \/ KeyWordLeft \/ KeyWordRight
    \/ KeyTop \/ KeyBottom
    \/ KeySelectAll \/ KeyCopy \/ KeyCut \/ KeyPaste
    \/ KeyFind \/ KeyFindNext \/ KeyGoto

SpecAny == InitAny /\ [][NextAny]_vars

(* Sessions of at most MaxDocKeys keys that type, erase, step sideways,    *)
(* undo, redo and save, on a document that was loaded, created empty or    *)
(* read from standard input.                                               *)
InitStdin(max) ==
    /\ \E chunks \in StdinChunks, al \in AllocSeqs :
          /\ al \in [1..Len(al) -> {FALSE}]
          /\ Fits(read_from_stdin([memset_editor EXCEPT !.alloc = al], chunks))
          /\ ed = [read_from_stdin([memset_editor EXCEPT !.alloc = al], chunks)
                     EXCEPT !.first = "none", !.news = 0]
          /\ hist = InitHist(Concat(chunks), max)
    /\ clipboard = <<>>
    /\ search = <<>>
    /\ ref = <<>>
    /\ env = NoEnv
    /\ con = NoCon

InitDoc == InitEditor(UndoTexts, MaxDocKeys) \/ InitStdin(MaxDocKeys)

NextDoc ==
    \/ KeyChar \/ KeyBackspace \/ KeyLeft \/ KeyRight \/ KeyUndo \/ KeyRedo
    \/ KeySave

SpecDoc == InitDoc /\ [][NextDoc]_vars

(* Sessions of at most MaxFindKeys keys that type, step, undo and search.  *)
InitFind == InitEditor(UndoTexts, MaxFindKeys)

NextFind ==
    \/ KeyChar \/ KeyLeft \/ KeyRight \/ KeyHome \/ KeyUndo
    \/ KeyFind \/ KeyFindNext

SpecFind == InitFind /\ [][NextFind]_vars

(* Sessions of at most MaxRingKeys keys on the ring of documents that main *)
(* opened from its arguments.                                              *)
RingText == <<97>>
ArgNames == <<<<97>>, <<98>>, <<99>>>>
RingNames == {<<97>>, <<100>>}

(* The ghost fields that tell what the last key did to the ring. *)
Fresh(v) ==
    [v EXCEPT !.made = NULL, !.removed = FALSE, !.yes = {}, !.stale = FALSE]

RingStep(name, key, r) ==
    /\ ~ed.fault
    /\ ~env.left
    /\ env.current # NULL
    /\ hist.keys < hist.max
    /\ ed' = Finish(r.ed)
    /\ env' = [r.env EXCEPT !.trail = Append(@, name)]
    /\ hist' = Track(name, key, r.ed, search)
    /\ UNCHANGED <<clipboard, search, ref, con>>

KeyNextFile ==
    RingStep("next_file", KEY_SHIFT_TAB,
             Unpark(next_file(Park(Fresh(env), Start(NUL, <<>>)))))

KeyPrevFile ==
    RingStep("prev_file", KEY_CTRL_TAB,
             Unpark(prev_file(Park(Fresh(env), Start(NUL, <<>>)))))

KeyNew ==
    /\ FreeDoc(env) # NULL
    /\ RingStep("new_editor", ctrl(110),
                new_editor(Fresh(env), Start(NUL, <<>>), FreeDoc(env)))

KeyOpen ==
    \E n \in RingNames, esc \in BOOLEAN, loads \in BOOLEAN :
        /\ FreeDoc(env) # NULL
        /\ RingStep(IF ~prompt(n, esc).ok THEN "prompt"
                    ELSE IF find_editor(env, n) = NULL /\ ~loads
                    THEN "open_failed"
                    ELSE "open_editor",
                    ctrl(111),
                    open_editor(Fresh(env), Start(NUL, <<>>), prompt(n, esc),
                                loads, RingText, FreeDoc(env)))

(* ctrl-w: after close_editor() edit() reads ed->env->current; when the    *)
(* document was deleted, ed points to a freed block and the read is        *)
(* undefined: it yields env or anything else.                               *)
KeyClose ==
    \E yes \in BOOLEAN, intact \in BOOLEAN :
        /\ env.current # NULL
        /\ \E r \in {close_editor(Fresh(env), Start(NUL, <<>>), yes)} :
            RingStep("close_editor", ctrl(119),
                     IF r.env.removed
                     THEN [r EXCEPT !.env.stale = TRUE,
                                    !.ed.fault = @ \/ ~intact]
                     ELSE r)

(* ctrl-q: edit() returns and main calls quit(); when quit() returns 1,    *)
(* main leaves its loop and deletes every document.                         *)
KeyQuit ==
    \E ans \in [Doc -> BOOLEAN] :
        /\ env.current # NULL
        /\ \E q \in {quit(env, DirtyDocs(env, ed), ans)} :
            RingStep("quit", ctrl(113),
                     IF q.ok
                     THEN [env |-> [Fresh(env) EXCEPT
                                      !.left = TRUE, !.yes = q.yes,
                                      !.exit = <<0>>,
                                      !.unsaved = DirtyDocs(env, ed),
                                      !.current = NULL,
                                      !.docs = [d \in Doc |-> NoDoc],
                                      !.order = <<>>],
                           ed |-> clear_undo(Start(NUL, <<>>))]
                     ELSE [env |-> [Fresh(env) EXCEPT !.yes = q.yes],
                           ed |-> Start(NUL, <<>>)])

(* F3 and ctrl-u: the file named at the cursor is loaded or not. *)
KeyJump ==
    \E key \in {KEY_F3, ctrl(117)}, loads \in BOOLEAN :
        /\ env.current # NULL
        /\ FreeDoc(env) # NULL
        /\ RingStep(IF jump_target(ed).name # <<>>
                       /\ find_editor(env, jump_target(ed).name) = NULL
                       /\ ~loads
                    THEN "jump_failed" ELSE "jump_to_editor",
                    key,
                    jump_to_editor(Fresh(env), Start(NUL, <<>>), loads,
                                   RingText, FreeDoc(env)))

(* main: one document for every argument, or an untitled one. *)
RECURSIVE main_args(_, _)
main_args(v, names) ==
    IF names = <<>> THEN v
    ELSE main_args([create_editor(v, FreeDoc(v)) EXCEPT
                       !.docs[FreeDoc(v)].name = Head(names),
                       !.docs[FreeDoc(v)].e = load_file(RingText)],
                   Tail(names))

InitRing ==
    /\ \E n \in 0..MaxDocs :
          \E r \in {IF n = 0 THEN first_editor(NoEnv, FreeDoc(NoEnv))
                     ELSE Unpark(main_args(NoEnv, SubSeq(ArgNames, 1, n)))} :
              /\ ed = r.ed
              /\ env = Fresh(r.env)
              /\ con = NoCon
              /\ hist = InitHist(Content(r.ed), MaxRingKeys)
    /\ clipboard = <<>>
    /\ search = <<>>
    /\ ref = <<>>

NextRing ==
    \/ KeyChar \/ KeyUndo \/ KeySave
    \/ KeyNextFile \/ KeyPrevFile \/ KeyNew \/ KeyOpen \/ KeyClose
    \/ KeyQuit

SpecRing == InitRing /\ [][NextRing]_vars

(* Sessions of at most MaxJumpKeys keys in a ring of one or two files that *)
(* name other files, with and without a line number.                       *)
JumpTexts == {<<100, 58, 50, LF>>, <<100, LF, 97>>}

RECURSIVE main_files(_, _, _)
main_files(v, names, text) ==
    IF names = <<>> THEN v
    ELSE main_files([create_editor(v, FreeDoc(v)) EXCEPT
                        !.docs[FreeDoc(v)].name = Head(names),
                        !.docs[FreeDoc(v)].e = load_file(text)],
                    Tail(names), text)

InitJump ==
    /\ \E n \in 1..2, t \in JumpTexts :
          \E r \in {Unpark(main_files(NoEnv, SubSeq(ArgNames, 1, n), t))} :
              /\ ed = r.ed
              /\ env = Fresh(r.env)
              /\ con = NoCon
              /\ hist = InitHist(Content(r.ed), MaxJumpKeys)
    /\ clipboard = <<>>
    /\ search = <<>>
    /\ ref = <<>>

NextJump ==
    \/ KeyJump \/ KeyOpen \/ KeyNextFile
    \/ KeyRight \/ KeyDown \/ KeyChar

SpecJump == InitJump /\ [][NextJump]_vars

(* Sessions of at most MaxPromptKeys keys with every command that asks    *)
(* for a line of input, on an untitled document or a loaded file.          *)
InitPrompt ==
    /\ \E n \in 0..1 :
          \E r \in {IF n = 0 THEN first_editor(NoEnv, FreeDoc(NoEnv))
                     ELSE Unpark(main_args(NoEnv, SubSeq(ArgNames, 1, n)))} :
              /\ ed = r.ed
              /\ env = Fresh(r.env)
              /\ con = NoCon
              /\ hist = InitHist(Content(r.ed), MaxPromptKeys)
    /\ clipboard = <<>>
    /\ search = <<>>
    /\ ref = <<>>

NextPrompt ==
    \/ KeyFind \/ KeyGoto \/ KeySave \/ KeyPipe \/ KeyOpen
    \/ KeyChar \/ KeyLeft

SpecPrompt == InitPrompt /\ [][NextPrompt]_vars

(* A prompt of one of the commands that ask for a line, the keys typed     *)
(* into it, and SIGWINCH delivered between any two of them: getkey()       *)
(* blocks in getchar() while the handler runs.                             *)
InitWinch ==
    /\ ed = load_file(<<>>)
    /\ clipboard = <<>>
    /\ search = <<>>
    /\ ref = <<>>
    /\ hist = NoHist
    /\ env = NoEnv
    /\ \E cols \in WinCols : con = get_console_size(NoCon, cols, FALSE)

ConStep(c) ==
    /\ ~con.fault
    /\ con' = c
    /\ UNCHANGED <<ed, clipboard, search, ref, hist, env>>

PromptOpen ==
    \E msg \in Messages : ~con.p.on /\ ConStep(prompt_enter(con, msg))

PromptChar ==
    \E ch \in Chars :
        /\ con.p.on
        /\ con.p.len < MaxPromptLen
        /\ ConStep(prompt_char(con, ch))

PromptBackspace == con.p.on /\ con.p.len > 0 /\ ConStep(prompt_backspace(con))

PromptEnter == con.p.on /\ ConStep(prompt_return(con))

PromptEsc == con.p.on /\ ConStep(prompt_escape(con))

Winch ==
    \E cols \in WinCols, moved \in BOOLEAN :
        ConStep(handle_winch(con, cols, moved))

NextWinch ==
    \/ PromptOpen \/ PromptChar \/ PromptBackspace \/ PromptEnter
    \/ PromptEsc \/ Winch

SpecWinch == InitWinch /\ [][NextWinch]_vars

(* Sessions of at most MaxWordKeys cursor keys in loaded texts that a     *)
(* window of Lines lines does not show whole.                              *)
WordTexts ==
    {Fill(Lines + 1, LF) \o <<97>>, <<97, LF, LF, 98>>, <<97, 32, 98, LF>>}

InitWord == InitEditor(WordTexts, MaxWordKeys)

NextWord ==
    \/ KeyWordRight \/ KeyWordLeft \/ KeyDown \/ KeyUp \/ KeyRight \/ KeyLeft

SpecWord == InitWord /\ [][NextWord]_vars

(* main from its start: every file of the command line is loaded, is      *)
(* created because it does not exist, or can be neither loaded nor         *)
(* created; then sessions of at most MaxMainKeys keys.                     *)
ArgOutcomes == {"loaded", "created", "failed"}

(* The argv loop of main: at the first file with rc < 0 main returns 0. *)
RECURSIVE main_loop(_, _, _)
main_loop(v, names, outs) ==
    IF names = <<>> THEN v
    ELSE IF Head(outs) = "failed"
    THEN [create_editor(v, FreeDoc(v)) EXCEPT
             !.docs[FreeDoc(v)].name = Head(names),
             !.argfail = TRUE, !.left = TRUE, !.exit = <<0>>]
    ELSE main_loop([create_editor(v, FreeDoc(v)) EXCEPT
                       !.docs[FreeDoc(v)].name = Head(names),
                       !.docs[FreeDoc(v)].e =
                           IF Head(outs) = "loaded" THEN load_file(RingText)
                           ELSE load_file(<<>>)],
                   Tail(names), Tail(outs))

InitMain ==
    /\ ed = Parked
    /\ clipboard = <<>>
    /\ search = <<>>
    /\ ref = <<>>
    /\ hist = InitHist(<<>>, MaxMainKeys)
    /\ env = NoEnv
    /\ con = NoCon

MainStart ==
    /\ env.current = NULL
    /\ ~env.left
    /\ \E n \in 0..MaxDocs :
          \E outs \in [1..n -> ArgOutcomes] :
              \E r \in {IF n = 0 THEN first_editor(NoEnv, FreeDoc(NoEnv))
                         ELSE Unpark(main_loop(NoEnv, SubSeq(ArgNames, 1, n),
                                               outs))} :
                  /\ ed' = r.ed
                  /\ env' = Fresh(r.env)
                  /\ hist' = InitHist(Content(r.ed), MaxMainKeys)
    /\ UNCHANGED <<clipboard, search, ref, con>>

NextMain ==
    \/ MainStart \/ KeyChar \/ KeySave \/ KeyNextFile \/ KeyClose \/ KeyQuit

SpecMain == InitMain /\ [][NextMain]_vars

(* Sessions of at most MaxRedoKeys keys that break and join lines, step    *)
(* between them, undo and redo.                                            *)
RedoTexts == {<<97, 98>>, <<97, LF, 98>>}

InitRedo == InitEditor(RedoTexts, MaxRedoKeys)

NextRedo ==
    \/ KeyEnter \/ KeyBackspace \/ KeyDel
    \/ KeyUndo \/ KeyRedo
    \/ KeyUp \/ KeyDown

SpecRedo == InitRedo /\ [][NextRedo]_vars

(* Calls of moveto() for every target of a loaded text, each from the      *)
(* cursor the call before left; ref holds the arguments of the last call.  *)
MoveTexts ==
    UNION {[1..n -> {97, LF}] : n \in 1..(MaxLen - 1)}
        \cup {<<LF, 97, LF, 98>>, <<97, LF, LF, LF>>}

InitMove == InitEditor(MoveTexts, 0)

CallMoveto ==
    \E pos \in 0..MaxLen, center \in BOOLEAN :
        /\ ~ed.fault
        /\ pos <= text_length(ed)
        /\ ed' = Finish(moveto(Start(NUL, <<>>), pos, center))
        /\ hist' = Track("moveto", 0, moveto(Start(NUL, <<>>), pos, center),
                         search)
        /\ ref' = <<pos, IF center THEN 1 ELSE 0>>
        /\ UNCHANGED <<clipboard, search, env, con>>

NextMove == CallMoveto

SpecMove == InitMove /\ [][NextMove]_vars

(* ---------------------------------------------------------------------- *)
(* Properties of the editor                                                *)
(* ---------------------------------------------------------------------- *)
(* The undo log from undohead along next. *)
RECURSIVE undo_log(_, _, _)
undo_log(e, a, fuel) ==
    IF a = NULL \/ fuel = 0 \/ ~Live(e, a) THEN <<>>
    ELSE <<[pos |-> e.nodes[a].pos, erased |-> e.nodes[a].erased,
            inserted |-> e.nodes[a].inserted,
            undobuf |-> e.nodes[a].undobuf,
            redobuf |-> e.nodes[a].redobuf]>>
         \o undo_log(e, e.nodes[a].next, fuel - 1)

UndoLog(e) == undo_log(e, e.undohead, MaxRec)

(* C2: an undo that immediately follows a recorded edit (undo cursor at    *)
(* the tail) leaves the text equal to the text that existed before the     *)
(* edits captured by the tail record.                                      *)
C2_UndoRestoresPreEdit ==
    hist.undid => ~ed.fault /\ Content(ed) = hist.want

C2_Witness ==
    /\ hist.undid
    /\ ~ed.fault
    /\ Live(ed, ed.undotail)
    /\ ed.nodes[ed.undotail].erased >= 2
    /\ Content(ed) = hist.want

(* C3: N undos followed immediately by N redos leave the text equal to     *)
(* the text before the first of those undos.                               *)
C3_UndoRedoRoundTrip ==
    (hist.run.undos > 0 /\ hist.run.redos = hist.run.undos)
        => ~ed.fault /\ Content(ed) = hist.run.snap

(* C4: from a loaded document, after any editing and cursor keys followed  *)
(* by undo until the undo cursor is NULL, the text is the loaded text and  *)
(* dirty is false.                                                         *)
C4_UndoAllRestoresLoaded ==
    (hist.last = "undo" /\ hist.noredo)
        => /\ ~ed.fault
           /\ ed.undo = NULL => (Content(ed) = hist.loaded /\ ~ed.dirty)

(* C5: after every key, linepos + col <= text_length. *)
C5_CursorWithinText ==
    ~ed.fault => ed.linepos + ed.col <= text_length(ed)

(* C6: after every editing and navigation key, col <= line_length(linepos). *)
C6_ColWithinLine ==
    ~ed.fault => ed.col <= line_length(ed, ed.linepos)

(* C7: after every key, linepos = 0 or the byte at linepos - 1 is '\n'. *)
C7_LineposAtLineStart ==
    ~ed.fault => (ed.linepos = 0 \/ get(ed, ed.linepos - 1) = LF)

C7_Witness ==
    /\ ~ed.fault
    /\ hist.last = "redo"
    /\ ed.linepos > 0
    /\ get(ed, ed.linepos - 1) = LF

(* C8: when the needle occurs at or after the cursor, find_text sets       *)
(* anchor to the least such match m and leaves the cursor at m + |needle|. *)
C8_FindSelectsMatch ==
    (hist.last = "find_text" /\ hist.match >= 0)
        => /\ ~ed.fault
           /\ ed.anchor = hist.match
           /\ ed.linepos + ed.col = hist.match + hist.slen

InsertAbc ==
    [pos |-> 0, erased |-> 0, inserted |-> 3, undobuf |-> <<>>,
     redobuf |-> <<97, 98, 99>>]

(* C9: in an empty document, typing a, b, c and backspace twice gives the  *)
(* text "a", col = 1 and the undo log {pos 0, inserted "abc"}, {pos 1,     *)
(* erased 2, erased payload "cb"}.                                         *)
C9_TypeAbcBackspaceTwice ==
    (hist.loaded = <<>> /\ hist.typed = Len(Scenario))
        => /\ Content(ed) = <<97>>
           /\ ed.col = 1
           /\ UndoLog(ed) = <<InsertAbc,
                              [pos |-> 1, erased |-> 2, inserted |-> 0,
                               undobuf |-> <<99, 98>>, redobuf |-> <<>>]>>

(* C9 as the code has it: the erased payload is kept in text order, "bc". *)
C9_ErasedPayloadInTextOrder ==
    (hist.loaded = <<>> /\ hist.typed = Len(Scenario))
        => /\ Content(ed) = <<97>>
           /\ ed.col = 1
           /\ UndoLog(ed) = <<InsertAbc,
                              [pos |-> 1, erased |-> 2, inserted |-> 0,
                               undobuf |-> <<98, 99>>, redobuf |-> <<>>]>>

C9_Witness ==
    /\ hist.loaded = <<>>
    /\ hist.typed = Len(Scenario)
    /\ Content(ed) = <<97>>
    /\ Len(UndoLog(ed)) = 2

(* C10: a recorded edit that follows cursor keys dispatched after the      *)
(* previous recorded edit is stored in a newly allocated record.           *)
C10_MotionForcesNewRecord ==
    hist.moved => ed.first = "new"

(* C10 as the code has it: such an edit is coalesced exactly when its      *)
(* first store is a single byte contiguous with, and of the kind of, the   *)
(* tail record; the cursor keys in between do not matter.                  *)
C10_CoalescedIffContiguous ==
    hist.moved => (ed.first = "coalesced" <=> hist.contiguous)

C10_Witness ==
    /\ hist.moved
    /\ hist.contiguous
    /\ ed.first = "coalesced"
    /\ ed.undo = ed.undotail

(* C11: right after a recorded edit the undo cursor is the tail, the tail  *)
(* has no successor, the records that lay after the cursor before the edit *)
(* are released (what is live is what lay at or before the cursor plus the *)
(* records the edit allocated, all of them on the chain from the cursor),   *)
(* and a redo changes nothing.                                             *)
C11_EditTruncatesRedo ==
    hist.edited
        => /\ ~ed.fault
           /\ ed.undo = ed.undotail
           /\ Live(ed, ed.undo)
           /\ ed.nodes[ed.undo].next = NULL
           /\ LiveRecords(ed) = hist.kept + ed.news
           /\ ChainLen(ed, ed.undo) = LiveRecords(ed)
           /\ redo(ed) = ed

C11_Witness ==
    /\ hist.edited
    /\ hist.dropped > 0
    /\ hist.kept > 0
    /\ ed.undo = ed.undotail
    /\ redo(ed) = ed

(* C12: a document whose dirty flag is clear holds exactly the bytes it    *)
(* held at the most recent of its load, creation, ingestion from standard  *)
(* input or successful save.                                               *)
C12_CleanMeansUnchanged ==
    (~ed.fault /\ ~ed.dirty) => Content(ed) = hist.base

(* C12, the flag's transitions: only a successful save or an undo that     *)
(* reaches NIL clears it; every recorded edit and every redo that applies   *)
(* a record sets it.                                                        *)
C12_DirtyTransitions ==
    [][/\ (ed.dirty /\ ~ed'.dirty /\ ~ed'.fault)
           => \/ hist'.last = "save_file"
              \/ hist'.last = "undo" /\ ed'.undo = NULL
       /\ hist'.edited => ed'.dirty
       /\ (hist'.last = "redo" /\ ~ed'.fault /\ ed'.undo # ed.undo)
           => ed'.dirty]_vars

(* C13: after the dispatch of a motion key pressed without shift the       *)
(* anchor is NONE.                                                          *)
C13_PlainMotionClearsAnchor ==
    (hist.plain /\ ~ed.fault) => ed.anchor = NOANCHOR

(* C14: a Backspace with no selection at column 0 of a line k > 0 removes  *)
(* exactly the line terminator in front of the cursor ("\n", or "\r\n"     *)
(* when a "\r" precedes it), leaves line = k - 1 and leaves the cursor     *)
(* where the removed terminator began.                                     *)
C14_BackspaceJoinsLines ==
    [][hist'.join
       => LET p == ed.linepos
              n == IF AtCrLf(ed, p - 2) THEN 2 ELSE 1
          IN  /\ ~ed'.fault
              /\ get(ed, p - 1) = LF
              /\ Content(ed') = Without(Content(ed), p - n, n)
              /\ ed'.line = ed.line - 1
              /\ ed'.linepos + ed'.col = p - n]_vars

(* C15: one Delete with the cursor in front of "\r\n", or one Backspace    *)
(* with the cursor behind it, with no selection, removes both bytes and    *)
(* nothing else; both bytes are stored, in text order, in one undo record, *)
(* the tail, and one undo puts that record's bytes back: the text before   *)
(* the key when the key began the record.                                  *)
C15_CrLfErasedAtomically ==
    [][hist'.crlf
       => LET cur == ed.linepos + ed.col
              q   == IF hist'.last = "del" THEN cur ELSE cur - 2
              r   == ed'.nodes[ed'.undo]
              now == Content(ed')
          IN  /\ ~ed'.fault
              /\ now = Without(Content(ed), q, 2)
              /\ ed'.first # "none" /\ ed'.news <= 1
              /\ ed'.undo = ed'.undotail /\ Live(ed', ed'.undo)
              /\ r.erased >= 2 /\ r.inserted = 0
              /\ IF hist'.last = "del"
                 THEN SubSeq(r.undobuf, r.erased - 1, r.erased) = <<CR, LF>>
                 ELSE r.pos = q /\ SubSeq(r.undobuf, 1, 2) = <<CR, LF>>
              /\ ~undo(ed').fault
              /\ Content(undo(ed'))
                     = Take(now, r.pos) \o r.undobuf \o Drop(now, r.pos)
              /\ ed'.first = "new"
                     => Content(undo(ed')) = Content(ed)]_vars

C15_Witness ==
    /\ hist.crlf
    /\ hist.last = "backspace"
    /\ ~ed.fault
    /\ ed.first = "new"
    /\ ed.nodes[ed.undo].undobuf = <<CR, LF>>

(* C16: with no selection, a Backspace at position 0 and a Delete at the   *)
(* end of the text change nothing: not the content, the cursor, the        *)
(* anchor, the undo records, the undo cursor or the dirty flag.            *)
C16_EdgeKeysAreNoOps ==
    [][hist'.edge
       => /\ ~ed'.fault
          /\ Content(ed') = Content(ed)
          /\ ed'.linepos = ed.linepos /\ ed'.col = ed.col
          /\ ed'.line = ed.line
          /\ ed'.anchor = ed.anchor
          /\ ed'.nodes = ed.nodes
          /\ ed'.undohead = ed.undohead /\ ed'.undotail = ed.undotail
          /\ ed'.undo = ed.undo
          /\ ed'.dirty = ed.dirty]_vars

C16_Witness ==
    /\ hist.edge
    /\ hist.last = "del"
    /\ ~ed.fault
    /\ ed.dirty
    /\ ed.undo # NULL
    /\ ed.linepos + ed.col = text_length(ed)
    /\ text_length(ed) > 0

(* C17: when the needle does not occur at or after the cursor, find_text   *)
(* leaves the content, the cursor, the anchor, the viewport, the undo log  *)
(* and the dirty flag as they were.                                        *)
C17_FindMissChangesNothing ==
    [][(hist'.last = "find_text" /\ hist'.slen > 0 /\ hist'.match < 0)
       => /\ ~ed'.fault
          /\ Content(ed') = Content(ed)
          /\ ed'.linepos = ed.linepos /\ ed'.col = ed.col
          /\ ed'.line = ed.line
          /\ ed'.anchor = ed.anchor
          /\ ed'.toppos = ed.toppos /\ ed'.topline = ed.topline
          /\ ed'.margin = ed.margin
          /\ ed'.nodes = ed.nodes
          /\ ed'.undohead = ed.undohead /\ ed'.undotail = ed.undotail
          /\ ed'.undo = ed.undo
          /\ ed'.dirty = ed.dirty]_vars

(* The documents met from d along next until current comes up again. *)
RECURSIVE ring_walk(_, _, _)
ring_walk(v, d, fuel) ==
    IF fuel = 0 \/ d \notin Doc THEN {}
    ELSE IF v.docs[d].next = v.current THEN {d}
    ELSE {d} \cup ring_walk(v, v.docs[d].next, fuel - 1)

Ring(v) == ring_walk(v, v.current, MaxDocs)

WellFormedRing(v) ==
    /\ v.current \in Doc
    /\ v.docs[v.current].live
    /\ Ring(v) = {d \in Doc : v.docs[d].live}
    /\ \A d \in Ring(v) :
          /\ v.docs[d].next \in Ring(v)
          /\ v.docs[d].prev \in Ring(v)
          /\ v.docs[v.docs[d].next].prev = d
          /\ v.docs[v.docs[d].prev].next = d

(* C18: create_editor puts the new document right behind current and      *)
(* makes it current; next_file and prev_file undo each other; with three   *)
(* documents A, B, C opened in that order and C current, next_file gives   *)
(* A, a second next_file B, and prev_file then A.                          *)
C18_RingIsRotation ==
    /\ [](( ~env.left /\ ~ed.fault)
            => /\ prev_file(next_file(env)).current = env.current
               /\ next_file(prev_file(env)).current = env.current
               /\ Len(env.order) = 3
                  => /\ env.trail = <<>> => env.current = env.order[3]
                     /\ env.trail = <<"next_file">>
                            => env.current = env.order[1]
                     /\ env.trail = <<"next_file", "next_file">>
                            => env.current = env.order[2]
                     /\ env.trail = <<"next_file", "next_file", "prev_file">>
                            => env.current = env.order[1])
    /\ [][(hist'.last \in {"new_editor", "open_editor"}
             /\ env'.made # NULL /\ ~ed'.fault)
           => /\ env'.current = env'.made
              /\ ~env.docs[env'.made].live
              /\ env'.docs[env.current].next = env'.made
              /\ env'.docs[env'.made].prev = env.current
              /\ env'.docs[env'.made].next
                    = (IF env.docs[env.current].next = env.current
                       THEN env.current ELSE env.docs[env.current].next)
              /\ Ring(env') = Ring(env) \cup {env'.made}
              /\ WellFormedRing(env')]_vars

C18_Witness ==
    /\ Len(env.order) = 3
    /\ env.trail = <<"next_file", "next_file", "prev_file">>
    /\ env.current = env.order[1]
    /\ ~ed.fault

(* C19: while the editor runs, after every key current is a live document  *)
(* of a well-formed circular doubly-linked ring and the dispatch of the    *)
(* closing key is defined; closing a document makes its predecessor        *)
(* current, and closing the only document leaves a ring of one fresh       *)
(* untitled document.                                                      *)
C19_CurrentInWellFormedRing ==
    /\ [](~env.left
            => /\ hist.last = "close_editor" => ~ed.fault
               /\ ~ed.fault => WellFormedRing(env))
    /\ [][(hist'.last = "close_editor" /\ env'.removed /\ ~ed'.fault)
           => IF env.docs[env.current].next = env.current
              THEN /\ Ring(env') = {env'.current}
                   /\ env'.made = env'.current
                   /\ ed' = new_file
                   /\ env'.docs[env'.current].name = Untitled(env'.untitled)
              ELSE /\ env'.current = env.docs[env.current].prev
                   /\ Ring(env') = Ring(env) \ {env.current}]_vars

(* C20: close removes a dirty document only after the user answered yes;   *)
(* main leaves its loop through quit only when the user answered yes for   *)
(* every dirty document of the ring; after a no to quit, every document    *)
(* and the ring are as before.                                             *)
C20_NoLossWithoutConsent ==
    [][/\ (hist'.last = "close_editor" /\ ed.dirty
           /\ env.current \notin env'.yes)
          => /\ ~env'.removed
             /\ env'.docs = env.docs
             /\ env'.current = env.current
             /\ Content(ed') = Content(ed) /\ ed'.dirty
       /\ (env'.left /\ ~env.left) => DirtyDocs(env, ed) \subseteq env'.yes
       /\ (hist'.last = "quit" /\ ~env'.left /\ ~ed'.fault)
          => /\ env'.docs = env.docs
             /\ env'.current = env.current
             /\ ed' = [ed EXCEPT !.first = "none", !.news = 0]]_vars

C20_Witness ==
    /\ env.left
    /\ env.unsaved # {}
    /\ env.unsaved \subseteq env.yes
    /\ hist.last = "quit"

(* The number of '\n' bytes of the text before position p. *)
Newlines(e, p) ==
    Cardinality({i \in 1..Min(p, Len(Content(e))) : Content(e)[i] = LF})

(* The start of the line that holds position p, from the text alone. *)
LineStartOf(e, p) ==
    IF \E i \in 1..Min(p, Len(Content(e))) : Content(e)[i] = LF
    THEN CHOOSE i \in 1..Min(p, Len(Content(e))) :
            /\ Content(e)[i] = LF
            /\ \A k \in (i + 1)..Min(p, Len(Content(e))) : Content(e)[k] # LF
    ELSE 0

(* A cursor that names a position of the text: linepos a line start, col   *)
(* within the line, line the number of that line.                          *)
ConsistentCursor(e) ==
    /\ ~e.fault
    /\ e.col >= 0
    /\ e.linepos + e.col <= text_length(e)
    /\ e.linepos = LineStartOf(e, e.linepos + e.col)
    /\ e.line = Newlines(e, e.linepos)

(* C26: moveto(target, center) from a consistent cursor, for a target in   *)
(* [0, length], terminates with linepos + col = target and linepos the     *)
(* start of the line that holds target, also on a last line without a      *)
(* newline when target is before the end of the text.                      *)
C26_MovetoReachesTarget ==
    [][(hist'.last = "moveto" /\ ConsistentCursor(ed))
       => /\ ~ed'.fault
          /\ ed'.linepos + ed'.col = ref'[1]
          /\ ed'.linepos = LineStartOf(ed', ref'[1])]_vars

(* C27: after every key, line is the number of '\n' bytes before linepos   *)
(* and topline the number of '\n' bytes before toppos, also after a redo   *)
(* done with the cursor behind the position of the redone edit.            *)
C27_LineCountsNewlines ==
    ~ed.fault => /\ ed.line = Newlines(ed, ed.linepos)
                 /\ ed.topline = Newlines(ed, ed.toppos)

(* The records met from a along next. *)
RECURSIVE next_records(_, _, _)
next_records(e, a, fuel) ==
    IF a = NULL \/ fuel = 0 \/ ~Live(e, a) THEN {}
    ELSE {a} \cup next_records(e, e.nodes[a].next, fuel - 1)

(* C28: after any sequence of recorded edits, undos and redos, undohead is *)
(* NULL exactly when the log holds no record; otherwise it is a live       *)
(* record without predecessor from which undotail is reached along next,   *)
(* also after every record was undone and a new edit was made.             *)
C28_UndoheadIsOldestRecord ==
    ~ed.fault
        => /\ (ed.undohead = NULL) <=> (LiveRecords(ed) = 0)
           /\ ed.undohead # NULL
                => /\ Live(ed, ed.undohead)
                   /\ ed.nodes[ed.undohead].prev = NULL
                   /\ ed.undotail \in next_records(ed, ed.undohead, MaxRec)

(* C29: every replace() of a key handler stays within the text (no erase   *)
(* ever ran over the end, e.over = 0), and an anchor that is set lies in   *)
(* [0, length], also after undo or redo shortened the text under a         *)
(* selection.                                                              *)
C29_AnchorWithinText ==
    /\ ed.over = 0
    /\ (~ed.fault /\ ed.anchor # NOANCHOR)
          => (0 <= ed.anchor /\ ed.anchor <= text_length(ed))

(* C30: insert_char called with no selection (anchor unset or equal to the *)
(* cursor) makes the text one byte longer, erases nothing and leaves no    *)
(* selection, so k characters typed in a row make the text k bytes longer. *)
C30_TypingWithoutSelectionGrows ==
    [][(hist'.last = "insert_char" /\ ~ed.fault /\ NoSelection(ed))
       => /\ ~ed'.fault
          /\ text_length(ed') = text_length(ed) + 1
          /\ \E ch \in Chars :
                Content(ed') = Take(Content(ed), ed.linepos + ed.col)
                               \o <<ch>>
                               \o Drop(Content(ed), ed.linepos + ed.col)
          /\ NoSelection(ed')]_vars

(* What a document shows: its text, cursor, viewport and selection. *)
View(e) ==
    [text |-> Content(e), linepos |-> e.linepos, line |-> e.line,
     col |-> e.col, toppos |-> e.toppos, topline |-> e.topline,
     margin |-> e.margin, anchor |-> e.anchor]

(* C22: when load_file() fails in open_editor() or jump_to_editor(), with  *)
(* or without a line number behind the name, the ring holds the documents  *)
(* it held, in the same order, current is the document that was current,   *)
(* and every document shows what it showed before.                         *)
C22_FailedLoadChangesNothing ==
    [][(hist'.last \in {"open_failed", "jump_failed"} /\ ~ed.fault)
       => /\ ~ed'.fault
          /\ env'.current = env.current
          /\ env'.order = env.order
          /\ env'.docs = env.docs
          /\ View(ed') = View(ed)]_vars

(* C21: a prompt of find, goto line, open, save-as or pipe that returns 0  *)
(* (left with Escape) ends the command with no side effect: text, cursor,  *)
(* anchor, undo log, dirty flag, file name, search needle and ring are as  *)
(* before the key.                                                         *)
C21_DismissedPromptChangesNothing ==
    [][(hist'.last = "prompt" /\ ~ed.fault)
       => /\ ed' = [ed EXCEPT !.first = "none", !.news = 0]
          /\ search' = search
          /\ clipboard' = clipboard
          /\ env'.current = env.current
          /\ env'.docs = env.docs
          /\ env'.order = env.order]_vars

(* C23: a replace() that has to grow the gap while malloc() fails ends     *)
(* without undefined behaviour and leaves text, length and gap boundaries  *)
(* as they were before the call.                                           *)
C23_FailedGrowthLeavesBuffer ==
    [][ref'.oom
       => /\ ~ed'.fault
          /\ ed'.pre = ed.pre
          /\ ed'.post = ed.post
          /\ ed'.gapsize = ed.gapsize
          /\ text_length(ed') = text_length(ed)]_vars

(* C24: whenever the resize handler has run, also in the middle of a       *)
(* prompt, no write of the prompt is undefined, the prompt's buf is still  *)
(* env->linebuf, its maxlen does not exceed the size of that block, and    *)
(* the bytes it stored are still there.                                    *)
C24_ResizeKeepsPromptBuffer ==
    /\ ~con.fault
    /\ con.p.on
         => /\ con.p.buf = con.linebuf
            /\ con.p.maxlen <= con.size
            /\ Take(con.text, con.p.len) = con.p.typed

(* C25: main returns 0 after a normal quit and a value other than 0 when a *)
(* file named on the command line could be neither loaded nor created.     *)
C25_ExitStatus ==
    /\ (env.left /\ ~env.argfail) => env.exit = <<0>>
    /\ env.argfail => (env.exit # <<>> /\ env.exit # <<0>>)

(* C33: no field of a document is read or written after delete_editor()   *)
(* freed it: the dispatch of a key that removed the current document goes  *)
(* on to the next document without a read through the removed one.         *)
C33_NoUseAfterDelete ==
    (hist.last = "close_editor" /\ env.removed) => ~env.stale

(* C32: no key reads the buffer at a negative position: when Backspace at  *)
(* column 0 has erased the "\n" at pos = linepos - 1, the position          *)
(* pos - 1 it hands to get() for the test for a preceding "\r" is at       *)
(* least 0.                                                                *)
C32_BackspaceReadsInsideText ==
    [][(hist'.join /\ ~erase_section(ed, ed.linepos - 1, 1).fault)
       => (ed.linepos - 1) - 1 >= 0]_vars

(* C31: after every completed key the cursor line is inside the viewport:  *)
(* topline <= line < topline + Lines and toppos <= linepos, also after a   *)
(* word motion that crosses several line boundaries.                       *)
C31_CursorLineInViewport ==
    ~ed.fault => /\ ed.topline <= ed.line
                 /\ ed.line < ed.topline + Lines
                 /\ ed.toppos <= ed.linepos

====
